---- MODULE Spec2Model ----
(***************************************************************************)
(* State-machine model of the GDVG enrichment pipeline (python/src/gdvg):  *)
(*   - db/queue.py            import_queue / enrichment_queue operations   *)
(*   - enrichment/run_enrich_content.py, run_enrich_people.py  batch runs  *)
(*   - enrichment/content_enricher.py, people_enricher.py  enrich_batch    *)
(*   - clients/tmdb.py        rate limiter, _request, details batch        *)
(*   - harvester/id_harvester.py, sync/change_tracker.py  id harvesting    *)
(*   - enrichment/wiki_enricher.py  merge with the secondary sources      *)
(*   - linker/cast_crew_linker.py   cast and crew links                    *)
(*   - the main functions of the entry points and their store calls       *)
(* Each sub-system has its own specification over the shared variables;    *)
(* a specification leaves the variables of the other sub-systems alone.    *)
(***************************************************************************)
EXTENDS Integers, Sequences, FiniteSets, TLC

VARIABLES
    import_queue,      \* rows of table import_queue
    enrichment_queue,  \* rows of table enrichment_queue
    clock,             \* datetime.utcnow() of the latest queue call
    lastCall,          \* the latest queue call: its arguments and what it returned
    items,             \* the item list handed to a batch call
    permits,           \* the value of the batch call's asyncio.Semaphore
    taskPc,            \* where each fetch_one task of the batch call is
    fetched,           \* what the TMDB fetch of each task came to
    slots,             \* the result slot of each task
    gathered,          \* the batch call: which function, its max_concurrent, the
                       \* order in which its tasks ended, and how it ended
    request,           \* one logical call of a client requester and its attempts
    current_delay_ms,  \* TMDBRateLimiter.current_delay_ms
    cursor,            \* the cycle cursor of each queue class
    history,           \* the runs of the batch runners so far
    harvest,           \* one call of a harvester function: its inputs and its result
    backoff,           \* the latest increase_delay / reset_delay call of the limiter
    time_now,          \* the time, in the unit of current_delay_ms
    limiter,           \* the limiter's last_request_time and the holder of its _lock
    acquirers,         \* the tasks that call acquire() on the limiter
    merge,             \* one merge of a TMDB record with its secondary sources
    run,               \* one run of a pipeline entry point: where it is and how it ended
    link               \* one call of the cast and crew linker

queueVars == <<import_queue, enrichment_queue, clock, lastCall>>
batchVars == <<items, permits, taskPc, fetched, slots, gathered>>
reqVars == <<request, current_delay_ms>>
cycleVars == <<cursor, history>>
harvestVars == <<harvest>>
limiterVars == <<backoff, time_now, limiter, acquirers>>
mergeVars == <<merge>>
runVars == <<run>>
linkVars == <<link>>

vars == <<import_queue, enrichment_queue, clock, lastCall,
          items, permits, taskPc, fetched, slots, gathered,
          request, current_delay_ms, cursor, history, harvest,
          backoff, time_now, limiter, acquirers, merge, run, link>>

----------------------------------------------------------------------------
(* Bounds of the model *)

MaxClock == 2         \* enqueue calls in a behaviour of the enqueue and run models
MaxClockDequeue == 3  \* enqueue calls in a behaviour of the dequeue model
MaxLimit == 2     \* largest limit / batch_size handed to a dequeue

(* Program constants *)

DB_BATCH_SIZE_UPSERT == 500
NumCycles == 9    \* enrichment cycles are 0..8

\* the tmdb ids and entity ids of the model
Ids == {1, 2}
ContentTypes == {"movie", "tv"}
QueueTypes == {"content", "people"}
Cycles == 0..(NumCycles - 1)
NoCycle == -1
\* the cycles the queue calls of the model are handed: the first and the last
CycleSample == {0, NumCycles - 1}
NoFilter == "none"
\* priority is documented as 0-10; the model draws two values of that range
PrioritySample == {5, 8}
\* the id lists handed to an enqueue call: no longer than the id set, so an id
\* may come twice
IdLists == UNION {[1..n -> Ids] : n \in 0..Cardinality(Ids)}

Max(a, b) == IF a >= b THEN a ELSE b
Min(a, b) == IF a <= b THEN a ELSE b
Range(s) == {s[i] : i \in DOMAIN s}
HasDuplicates(s) == \E i, j \in DOMAIN s : i < j /\ s[i] = s[j]

----------------------------------------------------------------------------
(* The store: supabase.table(t).upsert(batch, on_conflict=cols)            *)

ImportKey(r) == <<r.tmdb_id, r.content_type>>
EnrichKey(r) == <<r.queue_type, r.entity_id>>

\* The columns the import_queue upsert payload carries (queue.py:36-45).
ImportRecord(tmdb_id, content_type, priority, now) ==
    [tmdb_id |-> tmdb_id, content_type |-> content_type,
     priority |-> priority, status |-> "pending", created_at |-> now]

\* The columns the enrichment_queue upsert payload carries (queue.py:142-151):
\* the cycle argument is not among them.
EnrichRecord(queue_type, entity_id, priority, now) ==
    [queue_type |-> queue_type, entity_id |-> entity_id,
     priority |-> priority, status |-> "pending", created_at |-> now]

\* The cycle column of a freshly inserted enrichment_queue row (column default).
DefaultCycle == 0

\* INSERT ... ON CONFLICT (tmdb_id, content_type) DO UPDATE SET <payload columns>
\* for one payload record: an existing row keeps its id and takes every payload
\* column; otherwise a new row is inserted.  The columns processed_at and
\* completed_at are written by the mark_* calls and read by nothing: the rows of
\* the model do not carry them.  The id of a new row (a uuid the store draws)
\* is any value no other row has: the model takes the row's conflict key.
UpsertImportAlwaysInsert(table, rec) ==
    table \cup {[id |-> ImportKey(rec),
                 tmdb_id |-> rec.tmdb_id, content_type |-> rec.content_type,
                 priority |-> rec.priority, status |-> rec.status,
                 created_at |-> rec.created_at]}

UpsertImportRow(table, rec) ==
    IF \E row \in table : ImportKey(row) = ImportKey(rec)
    THEN {IF ImportKey(row) = ImportKey(rec)
          THEN [row EXCEPT !.priority = rec.priority,
                           !.status = rec.status,
                           !.created_at = rec.created_at]
          ELSE row : row \in table}
    ELSE table \cup {[id |-> ImportKey(rec),
                      tmdb_id |-> rec.tmdb_id, content_type |-> rec.content_type,
                      priority |-> rec.priority, status |-> rec.status,
                      created_at |-> rec.created_at]}

UpsertEnrichRow(table, rec) ==
    IF \E row \in table : EnrichKey(row) = EnrichKey(rec)
    THEN {IF EnrichKey(row) = EnrichKey(rec)
          THEN [row EXCEPT !.priority = rec.priority,
                           !.status = rec.status,
                           !.created_at = rec.created_at]
          ELSE row : row \in table}
    ELSE table \cup {[id |-> EnrichKey(rec),
                      queue_type |-> rec.queue_type, entity_id |-> rec.entity_id,
                      priority |-> rec.priority, status |-> rec.status,
                      created_at |-> rec.created_at, cycle |-> DefaultCycle]}

RECURSIVE UpsertImportBatch(_, _)
UpsertImportBatch(table, batch) ==
    IF batch = <<>> THEN table
    ELSE UpsertImportBatch(UpsertImportRow(table, Head(batch)), Tail(batch))

RECURSIVE UpsertEnrichBatch(_, _)
UpsertEnrichBatch(table, batch) ==
    IF batch = <<>> THEN table
    ELSE UpsertEnrichBatch(UpsertEnrichRow(table, Head(batch)), Tail(batch))

\* One upsert statement fails as a whole (the store raises, nothing is
\* written) when its payload names the same conflict key twice.
BatchRaises(keys) == HasDuplicates(keys)

Slice(s, from, to) == SubSeq(s, from, Min(to, Len(s)))

\* The loop "for i in range(0, len(records), DB_BATCH_SIZE_UPSERT)" of
\* add_to_import_queue: the result is the table after the last statement that
\* ran, whether the call raised, and total_queued.
RECURSIVE ImportUpsertLoop(_, _, _, _)
ImportUpsertLoop(table, records, i, total) ==
    IF i > Len(records) THEN [table |-> table, raised |-> FALSE, total |-> total]
    ELSE LET batch == Slice(records, i, i + DB_BATCH_SIZE_UPSERT - 1)
         IN IF BatchRaises([k \in DOMAIN batch |-> ImportKey(batch[k])])
            THEN [table |-> table, raised |-> TRUE, total |-> total]
            ELSE ImportUpsertLoop(UpsertImportBatch(table, batch), records,
                                  i + DB_BATCH_SIZE_UPSERT, total + Len(batch))

RECURSIVE EnrichUpsertLoop(_, _, _, _)
EnrichUpsertLoop(table, records, i, total) ==
    IF i > Len(records) THEN [table |-> table, raised |-> FALSE, total |-> total]
    ELSE LET batch == Slice(records, i, i + DB_BATCH_SIZE_UPSERT - 1)
         IN IF BatchRaises([k \in DOMAIN batch |-> EnrichKey(batch[k])])
            THEN [table |-> table, raised |-> TRUE, total |-> total]
            ELSE EnrichUpsertLoop(UpsertEnrichBatch(table, batch), records,
                                  i + DB_BATCH_SIZE_UPSERT, total + Len(batch))

----------------------------------------------------------------------------
(* db/queue.py: enqueue operations                                         *)

NoCall == [op |-> "none"]

\* What an enqueue call leaves in lastCall: the keys it was handed, those of
\* them that had a row before the call, its priority, whether it raised and
\* the total_queued it returned.
EnqueueCall(queue, keys, existing, priority, raised, total) ==
    [op |-> "enqueue", queue |-> queue, keys |-> keys, existing |-> existing,
     priority |-> priority, raised |-> raised, total |-> total]

\* add_to_import_queue(tmdb_ids, content_type, priority)
add_to_import_queue(tmdb_ids, content_type, priority) ==
    /\ IF tmdb_ids = <<>>
       THEN \* "if not tmdb_ids: return 0"
            /\ lastCall' = EnqueueCall("import", {}, {}, priority, FALSE, 0)
            /\ UNCHANGED <<import_queue, clock>>
       ELSE LET now == clock + 1
                records == [i \in DOMAIN tmdb_ids |->
                               ImportRecord(tmdb_ids[i], content_type, priority, now)]
                res == ImportUpsertLoop(import_queue, records, 1, 0)
            IN /\ import_queue' = res.table
               /\ clock' = now
               /\ lastCall' =
                     LET keys == {ImportKey(records[i]) : i \in DOMAIN records}
                     IN EnqueueCall("import", keys,
                                    keys \cap {ImportKey(r) : r \in import_queue},
                                    priority, res.raised, res.total)
    /\ UNCHANGED <<enrichment_queue>>

\* add_to_enrichment_queue(queue_type, entity_ids, priority, cycle): the
\* effect on the table and the returned total_queued.  cycle is accepted and
\* never used.
EnqueueEnrichment(queue_type, entity_ids, priority, cycle) ==
    IF entity_ids = <<>>
    THEN /\ lastCall' = EnqueueCall("enrichment", {}, {}, priority, FALSE, 0)
         /\ UNCHANGED <<enrichment_queue, clock>>
    ELSE LET now == clock + 1
             records == [i \in DOMAIN entity_ids |->
                            EnrichRecord(queue_type, entity_ids[i], priority, now)]
             res == EnrichUpsertLoop(enrichment_queue, records, 1, 0)
         IN /\ enrichment_queue' = res.table
            /\ clock' = now
            /\ lastCall' =
                  LET keys == {EnrichKey(records[i]) : i \in DOMAIN records}
                  IN EnqueueCall("enrichment", keys,
                                 keys \cap {EnrichKey(r) : r \in enrichment_queue},
                                 priority, res.raised, res.total)

add_to_enrichment_queue(queue_type, entity_ids, priority, cycle) ==
    /\ EnqueueEnrichment(queue_type, entity_ids, priority, cycle)
    /\ UNCHANGED <<import_queue>>

\* The content and people tables as bulk_add_to_enrichment_queue reads them:
\* the rows that carry a tmdb_id and their primary keys.
ContentTable == {[id |-> 1, tmdb_id |-> 1, content_type |-> "movie"],
                 [id |-> 2, tmdb_id |-> 1, content_type |-> "tv"]}
PeopleTable == {[id |-> 1, tmdb_id |-> 1], [id |-> 2, tmdb_id |-> 2]}

\* select("id").in_("tmdb_id", batch)[.eq("content_type", content_type)]
ResolveEntityIds(tmdb_ids, queue_type, content_type) ==
    IF queue_type = "content"
    THEN {row.id : row \in {r \in ContentTable :
                               /\ r.tmdb_id \in Range(tmdb_ids)
                               /\ (content_type # NoFilter => r.content_type = content_type)}}
    ELSE {row.id : row \in {r \in PeopleTable : r.tmdb_id \in Range(tmdb_ids)}}

\* The orders in which a select may return the rows of a set.
Orderings(S) ==
    {q \in [1..Cardinality(S) -> S] : \A i, j \in 1..Cardinality(S) : q[i] = q[j] => i = j}

\* bulk_add_to_enrichment_queue(tmdb_ids, queue_type, content_type, priority)
bulk_add_to_enrichment_queue(tmdb_ids, queue_type, content_type, priority) ==
    /\ LET resolved == ResolveEntityIds(tmdb_ids, queue_type, content_type)
       IN IF tmdb_ids = <<>> \/ resolved = {}
          THEN /\ lastCall' = EnqueueCall("enrichment", {}, {}, priority, FALSE, 0)
               /\ UNCHANGED <<enrichment_queue, clock>>
          ELSE \E entity_ids \in Orderings(resolved) :
                  EnqueueEnrichment(queue_type, entity_ids, priority, DefaultCycle)
    /\ UNCHANGED <<import_queue>>

----------------------------------------------------------------------------
(* db/queue.py: dequeue and completion                                     *)

\* .order("priority", desc=True).order("created_at", desc=False)
PrecedesLIFO(r1, r2) ==
    \/ r1.priority > r2.priority
    \/ r1.priority = r2.priority /\ r1.created_at > r2.created_at

Precedes(r1, r2) ==
    \/ r1.priority > r2.priority
    \/ r1.priority = r2.priority /\ r1.created_at < r2.created_at

\* The answers the store may give to "order ... limit(limit)" over the rows
\* cands: rows equal in both sort columns come in any order.
QueryResults(cands, limit) ==
    LET n == Min(limit, Cardinality(cands))
    IN {q \in [1..n -> cands] :
           /\ \A i, j \in 1..n : i < j => q[i] # q[j] /\ ~Precedes(q[j], q[i])
           /\ \A r \in cands \ Range(q) : \A i \in 1..n : ~Precedes(r, q[i])}

\* .eq("status", "pending")[.eq("content_type", content_type)]
ImportCandidates(table, content_type) ==
    {r \in table : /\ r.status = "pending"
                   /\ (content_type # NoFilter => r.content_type = content_type)}

\* A dequeue that claims the rows it returns.
get_import_queue_batch_claiming(content_type, limit) ==
    /\ \E q \in QueryResults(ImportCandidates(import_queue, content_type), limit) :
          /\ lastCall' = [op |-> "dequeue", queue |-> "import", filter |-> content_type,
                          cycle |-> NoCycle, limit |-> limit, rows |-> q]
          /\ import_queue' = {IF r \in Range(q) THEN [r EXCEPT !.status = "processing"]
                              ELSE r : r \in import_queue}
    /\ UNCHANGED <<enrichment_queue, clock>>

\* get_import_queue_batch(content_type, limit): a select, nothing is written.
get_import_queue_batch(content_type, limit) ==
    /\ \E q \in QueryResults(ImportCandidates(import_queue, content_type), limit) :
          lastCall' = [op |-> "dequeue", queue |-> "import", filter |-> content_type, cycle |-> NoCycle,
                        limit |-> limit, rows |-> q]
    /\ UNCHANGED <<import_queue, enrichment_queue, clock>>

\* mark_import_queue_completed(queue_ids): the updated table
mark_import_queue_completed(table, queue_ids) ==
    {IF r.id \in queue_ids
     THEN [r EXCEPT !.status = "completed"]
     ELSE r : r \in table}

\* .eq("queue_type", queue_type).eq("status", "pending")[.eq("cycle", cycle)]
EnrichCandidates(table, queue_type, cycle) ==
    {r \in table : /\ r.queue_type = queue_type
                   /\ r.status = "pending"
                   /\ (cycle # NoCycle => r.cycle = cycle)}

get_enrichment_queue_batch(queue_type, cycle, limit) ==
    /\ \E q \in QueryResults(EnrichCandidates(enrichment_queue, queue_type, cycle), limit) :
          lastCall' = [op |-> "dequeue", queue |-> "enrichment", filter |-> queue_type, cycle |-> cycle,
                        limit |-> limit, rows |-> q]
    /\ UNCHANGED <<import_queue, enrichment_queue, clock>>

\* mark_enrichment_queue_completed(queue_ids)
mark_enrichment_queue_completed(queue_ids) ==
    /\ enrichment_queue' =
          {IF r.id \in queue_ids
           THEN [r EXCEPT !.status = "completed"]
           ELSE r : r \in enrichment_queue}
    /\ lastCall' = [op |-> "mark", queue |-> "enrichment"]
    /\ UNCHANGED <<import_queue, clock>>

----------------------------------------------------------------------------
(* enrichment/run_enrich_content.py: enrich_from_import_queue              *)

\* queue_id_map = {int(row["tmdb_id"]): row["id"] for row in queue_df}: keyed
\* by tmdb_id alone, a later row of the batch replaces an earlier one.
queue_id_map(q) ==
    [t \in {q[i].tmdb_id : i \in DOMAIN q} |->
        LET last == CHOOSE i \in DOMAIN q :
                        /\ q[i].tmdb_id = t
                        /\ \A j \in DOMAIN q : q[j].tmdb_id = t => j <= i
        IN q[last].id]

\* "if enriched_items:" upsert_content_bulk(enriched_df) and then
\* mark_import_queue_completed(queue_ids_to_complete): the mark is reached
\* when there is something to upsert and the upsert has returned.
marks_without_upsert(q, ok, upsert_ok) == q # <<>> /\ ok # {}

marks_after_upsert(q, ok, upsert_ok) == q # <<>> /\ ok # {} /\ upsert_ok

\* enrich_from_import_queue(batch_size, content_type): q is the batch the
\* store returned, ok the positions whose TMDB fetch gave a result
\* (ContentEnricher.enrich_batch drops the others), upsert_ok whether
\* upsert_content_bulk returned instead of raising.
enrich_from_import_queue(batch_size, content_type, q, ok, upsert_ok) ==
    /\ q \in QueryResults(ImportCandidates(import_queue, content_type), batch_size)
    /\ ok \subseteq DOMAIN q
    /\ LET queue_ids_to_complete == {queue_id_map(q)[q[i].tmdb_id] : i \in ok}
           marks == marks_after_upsert(q, ok, upsert_ok)
       IN /\ import_queue' =
                IF marks
                THEN mark_import_queue_completed(import_queue, queue_ids_to_complete)
                ELSE import_queue
          /\ lastCall' = [op |-> "run", batch |-> [i \in DOMAIN q |-> q[i].id], ok |-> ok,
                         upsert_ok |-> upsert_ok,
                         completed |-> IF marks THEN queue_ids_to_complete ELSE {}]
    /\ UNCHANGED <<enrichment_queue, clock>>

----------------------------------------------------------------------------
(* clients/tmdb.py: get_content_details_batch, get_people_details_batch;   *)
(* enrichment/content_enricher.py, people_enricher.py: enrich_batch        *)

MaxBatch == 3        \* items in a batch call
MaxConcurrent == 2   \* largest max_concurrent handed to a batch call

\* The items of the model: (tmdb_id, content_type) pairs for content, one of
\* each content type, and person ids for people.
ContentItems == {<<1, "movie">>, <<2, "tv">>}
PersonItems == Ids

DetailsBatchFns == {"get_content_details_batch", "get_people_details_batch"}
EnrichBatchFns == {"ContentEnricher.enrich_batch", "PeopleEnricher.enrich_batch"}

ItemsOf(fn) ==
    IF fn \in {"get_content_details_batch", "ContentEnricher.enrich_batch"}
    THEN ContentItems
    ELSE PersonItems

ItemLists(fn) == UNION {[1..n -> ItemsOf(fn)] : n \in 0..MaxBatch}

\* What a task hands back: the data of its item, None, or an exception.
Data(item) == <<"data", item>>
None == <<"none">>
Raised == <<"raised">>

\* What the TMDB fetch of one item comes to, retries included: the details,
\* an empty answer, or an exception out of TMDBClient._request.
FetchOutcomes == {"ok", "empty", "error"}

\* get_movie_details / get_tv_details / get_person_details as fetch_one of
\* the details batch awaits them: the answer, or the exception.
get_details(item, outcome) ==
    CASE outcome = "ok" -> Data(item)
      [] outcome = "empty" -> None
      [] OTHER -> Raised

\* ContentEnricher.enrich_content without its "except Exception".
enrich_content_uncaught(item, outcome) ==
    CASE outcome = "ok" -> Data(item)
      [] outcome = "empty" -> None
      [] OTHER -> Raised

\* ContentEnricher.enrich_content(tmdb_id, content_type, tmdb_client): "if not
\* tmdb_data: return None"; "except Exception: ... return None".
enrich_content(item, outcome) ==
    CASE outcome = "ok" -> Data(item)
      [] outcome = "empty" -> None
      [] OTHER -> None

\* PeopleEnricher.enrich_person(tmdb_id, tmdb_client): the same shape.
enrich_person(item, outcome) ==
    CASE outcome = "ok" -> Data(item)
      [] outcome = "empty" -> None
      [] OTHER -> None

\* No batch call is under way.
IdleBatch ==
    /\ items = <<>>
    /\ permits = 0
    /\ taskPc = <<>>
    /\ fetched = <<>>
    /\ slots = <<>>
    /\ gathered = [fn |-> "none", state |-> "none", max_concurrent |-> 0,
                   finished |-> <<>>, value |-> <<>>]

\* The call of a batch function: semaphore = asyncio.Semaphore(max_concurrent),
\* one fetch_one task per item, every slot None.
StartBatch(fn, list, max_concurrent) ==
    /\ items = list
    /\ permits = max_concurrent
    /\ taskPc = [i \in DOMAIN list |-> "waiting"]
    /\ fetched = [i \in DOMAIN list |-> "none"]
    /\ slots = [i \in DOMAIN list |-> None]
    /\ gathered = [fn |-> fn, state |-> "pending", max_concurrent |-> max_concurrent,
                   finished |-> <<>>, value |-> <<>>]

\* "async with semaphore:" that lets every task in.
acquire_semaphore_unbounded(i) ==
    /\ taskPc[i] = "waiting"
    /\ taskPc' = [taskPc EXCEPT ![i] = "running"]
    /\ permits' = permits - 1
    /\ UNCHANGED <<items, fetched, slots, gathered>>

\* "async with semaphore:" entered by task i.
acquire_semaphore(i) ==
    /\ taskPc[i] = "waiting"
    /\ permits > 0
    /\ taskPc' = [taskPc EXCEPT ![i] = "running"]
    /\ permits' = permits - 1
    /\ UNCHANGED <<items, fetched, slots, gathered>>

\* The rest of task i: the awaited call gives `result`; an exception leaves
\* the "async with" (the permit is released) and ends the task, a value is
\* what the task keeps in its slot.
FinishTask(i, outcome, result) ==
    /\ taskPc[i] = "running"
    /\ fetched' = [fetched EXCEPT ![i] = outcome]
    /\ permits' = permits + 1
    /\ IF result = Raised
       THEN /\ taskPc' = [taskPc EXCEPT ![i] = "raised"]
            /\ UNCHANGED slots
       ELSE /\ taskPc' = [taskPc EXCEPT ![i] = "done"]
            /\ slots' = [slots EXCEPT ![i] = result]
    /\ gathered' = [gathered EXCEPT !.finished = Append(@, i)]
    /\ UNCHANGED items

\* fetch_one of get_content_details_batch / get_people_details_batch: the
\* task returns what get_*_details returns and raises what it raises.
fetch_one_details(i, outcome) ==
    FinishTask(i, outcome, get_details(items[i], outcome))

\* fetch_one of enrich_batch: "enriched[idx] = result".
fetch_one_enrich(i, outcome) ==
    FinishTask(i, outcome,
               IF gathered.fn = "ContentEnricher.enrich_batch"
               THEN enrich_content(items[i], outcome)
               ELSE enrich_person(items[i], outcome))

NotNone(r) == r # None

\* "await asyncio.gather(*tasks)" with return_exceptions=False ends the call:
\* the first exception of a task is raised to the caller, the other tasks are
\* not cancelled; with every task done the call returns.  `value` is what the
\* call returns then.
EndBatch(value) ==
    /\ gathered.state = "pending"
    /\ IF \E i \in DOMAIN taskPc : taskPc[i] = "raised"
       THEN gathered' = [gathered EXCEPT !.state = "raised"]
       ELSE /\ \A i \in DOMAIN taskPc : taskPc[i] = "done"
            /\ gathered' = [gathered EXCEPT !.state = "returned", !.value = value]
    /\ UNCHANGED <<items, permits, taskPc, fetched, slots>>

\* "return await asyncio.gather(*tasks, return_exceptions=False)": the task
\* results in input order.
gather_details == EndBatch(slots)

\* enrich_batch with "enriched.append(result)" in place of "enriched[idx] =
\* result": the results in the order in which the tasks ended.
gather_enrich_append_order ==
    EndBatch(SelectSeq([k \in DOMAIN gathered.finished |-> slots[gathered.finished[k]]],
                       NotNone))

\* "await asyncio.gather(*tasks)" then "return [r for r in enriched if r is
\* not None]".
gather_enrich == EndBatch(SelectSeq(slots, NotNone))

----------------------------------------------------------------------------
(* clients/tmdb.py, wikipedia.py, wikidata.py: the requesters under        *)
(* tenacity's @retry                                                       *)

TMDB_RATE_LIMIT_DELAY_MS == 50
TMDB_MAX_RETRIES == 5
WIKI_MAX_ATTEMPTS == 3     \* stop_after_attempt(3)
MAX_DELAY_MS == 5000       \* the cap of increase_delay

Requesters == {"TMDBClient._request", "WikipediaClient._request_action",
               "WikidataClient._query_sparql", "WikipediaClient._request_rest",
               "WikidataClient._get_entity_rest"}

\* The requesters with "if e.response.status_code == 404: return {}".
RestRequesters == {"WikipediaClient._request_rest", "WikidataClient._get_entity_rest"}

\* A requester that gives up after its first attempt.
StopAfterFirstAttempt(client) == 1

\* stop=stop_after_attempt(...)
StopAfterAttempt(client) ==
    IF client = "TMDBClient._request" THEN TMDB_MAX_RETRIES ELSE WIKI_MAX_ATTEMPTS

\* What one attempt may meet: a status code with a JSON body, a 200 whose
\* body is not JSON, a timeout, a refused connection.
Responses == {"200", "200_malformed", "429", "500", "401", "404",
              "timeout", "connect_error"}

\* The exception one attempt of the requester raises on a response:
\* raise_for_status() gives HTTPStatusError for every 4xx and 5xx (the 429 of
\* TMDB is raised by hand as the same type), response.json() gives
\* JSONDecodeError, the transport gives TimeoutException or ConnectError.
ExceptionOf(response) ==
    CASE response = "200" -> "none"
      [] response = "200_malformed" -> "JSONDecodeError"
      [] response \in {"429", "500", "401", "404"} -> "HTTPStatusError"
      [] response = "timeout" -> "TimeoutException"
      [] OTHER -> "ConnectError"

\* retry=retry_if_exception_type((httpx.HTTPStatusError, httpx.TimeoutException))
RetryIfExceptionType == {"HTTPStatusError", "TimeoutException"}

\* What one attempt of a requester comes to on a response: the exception it
\* raises, or the value it returns, the decoded body or the {} the REST
\* requesters return for a 404.
AttemptOutcome(client, response) ==
    IF client \in RestRequesters /\ response = "404"
    THEN [exc |-> "none", value |-> "empty"]
    ELSE [exc |-> ExceptionOf(response),
          value |-> IF ExceptionOf(response) = "none" THEN "json" ELSE "none"]

NoAttemptNumber == 0
NoError == [type |-> "none"]

\* The exception object an attempt raises: its type and the response it was
\* made for; the httpx exceptions carry the request (and with it the url),
\* and nothing in the requesters or in @retry(reraise=True) adds the number
\* of attempts to it.
RaisedError(response) ==
    [type |-> ExceptionOf(response), response |-> response,
     has_request_url |-> ExceptionOf(response) \in
                            {"HTTPStatusError", "TimeoutException", "ConnectError"},
     attempt_number |-> NoAttemptNumber]

\* No logical call.
NoRequest ==
    [client |-> "none", state |-> "none", attempt |-> 0, responses |-> <<>>,
     value |-> "none", error |-> NoError]

MaxDecimals == 4    \* decimal places of a millisecond the model keeps

RECURSIVE Pow(_, _)
Pow(b, n) == IF n = 0 THEN 1 ELSE b * Pow(b, n - 1)

\* current_delay_ms becomes a float with the first "current_delay_ms * 0.9".
\* The model keeps delays and times as whole multiples of 10^-MaxDecimals ms,
\* so that the product is exact while it has no more decimal places.
DelayScale == Pow(10, MaxDecimals)

\* TMDBRateLimiter.__init__: base_delay_ms = TMDB_RATE_LIMIT_DELAY_MS
base_delay_ms == TMDB_RATE_LIMIT_DELAY_MS * DelayScale
max_delay_ms == MAX_DELAY_MS * DelayScale

\* TMDBRateLimiter.increase_delay without the cap.
increase_delay_uncapped(delay) == delay * 2

\* TMDBRateLimiter.increase_delay
increase_delay(delay) == Min(delay * 2, max_delay_ms)

\* delay * 0.9, rounded down to the unit of the model
Times09(delay) == (delay \div 10) * 9 + ((delay % 10) * 9) \div 10

\* reset_delay(delay) is exact in the unit of the model: the delay is left
\* alone, the product has no further decimal place, or it is below the base
\* delay and the result is the base delay.
Representable09(delay) ==
    \/ delay <= base_delay_ms
    \/ delay % 10 = 0
    \/ Times09(delay) < base_delay_ms

\* TMDBRateLimiter.reset_delay without the max(..., base_delay_ms).
reset_delay_unfloored(delay) ==
    IF delay > base_delay_ms THEN Times09(delay) ELSE delay

\* TMDBRateLimiter.reset_delay: current * 0.9, not below the base delay.
reset_delay(delay) ==
    IF delay > base_delay_ms
    THEN Max(Times09(delay), base_delay_ms)
    ELSE delay

\* What an attempt of _request does to the limiter's delay: a 429 raises it,
\* a response that passed raise_for_status() decays it (before the body is
\* decoded); the Wikipedia and Wikidata clients have a fixed delay.
DelayAfter(client, response, delay) ==
    IF client # "TMDBClient._request" THEN delay
    ELSE IF response = "429" THEN increase_delay(delay)
    ELSE IF response \in {"200", "200_malformed"} THEN reset_delay(delay)
    ELSE delay

\* No logical call is under way.
IdleRequest ==
    /\ request = NoRequest
    /\ current_delay_ms = base_delay_ms

StartRequest(client) ==
    /\ request = [NoRequest EXCEPT !.client = client, !.state = "calling"]
    /\ current_delay_ms = base_delay_ms

\* One attempt of the decorated function and tenacity's decision after it:
\* a returned value ends the call; an exception of a retried type below the
\* attempt limit leads to another attempt; any other exception, and the
\* exception of the last attempt, is raised to the caller (reraise=True).
request_attempt(response) ==
    /\ request.state = "calling"
    /\ LET attempt_number == request.attempt + 1
           outcome == AttemptOutcome(request.client, response)
           exc == outcome.exc
           state == IF exc = "none" THEN "returned"
                    ELSE IF /\ exc \in RetryIfExceptionType
                            /\ attempt_number < StopAfterAttempt(request.client)
                         THEN "calling"
                         ELSE "raised"
       IN request' = [request EXCEPT
               !.attempt = attempt_number,
               !.responses = Append(@, response),
               !.state = state,
               !.value = outcome.value,
               !.error = IF state = "raised" THEN RaisedError(response) ELSE NoError]
    /\ current_delay_ms' = DelayAfter(request.client, response, current_delay_ms)

----------------------------------------------------------------------------
(* clients/tmdb.py: TMDBRateLimiter; clients/wikipedia.py: _rate_limit     *)

MaxThrottles == 8   \* longest run of 429s from the base delay the model counts

NotCounted == -1

\* No limiter call has been made: last_request_time is None, _lock is free.
NoneTime == -1
NoTask == 0

IdleLimiter ==
    /\ backoff = [op |-> "none", before |-> 0, throttles |-> 0]
    /\ time_now = 0
    /\ limiter = [client |-> "none", last_request_time |-> NoneTime,
                  lock |-> NoTask, last_return |-> NoneTime]
    /\ acquirers = <<>>

\* The 429 branch of _request calls rate_limiter.increase_delay().  throttles
\* counts the 429s since the delay was last the base delay with no success
\* in between, up to MaxThrottles.
IncreaseDelay ==
    /\ current_delay_ms' = increase_delay(current_delay_ms)
    /\ backoff' = [op |-> "increase_delay", before |-> current_delay_ms,
                   throttles |-> IF backoff.throttles \in 0..(MaxThrottles - 1)
                                 THEN backoff.throttles + 1
                                 ELSE NotCounted]

\* A response that passed raise_for_status() calls rate_limiter.reset_delay().
ResetDelay ==
    /\ Representable09(current_delay_ms)
    /\ current_delay_ms' = reset_delay(current_delay_ms)
    /\ backoff' = [op |-> "reset_delay", before |-> current_delay_ms,
                   throttles |-> IF current_delay_ms' = base_delay_ms
                                 THEN 0
                                 ELSE NotCounted]

WIKIPEDIA_RATE_LIMIT_DELAY_MS == 100

MaxAcquirers == 2   \* tasks that call acquire() on one limiter
MaxTicks == 6       \* the time a behaviour of the acquire model covers, in ticks

\* Time passes in steps of half the TMDB base delay.
TickLength == base_delay_ms \div 2

Limiters == {"TMDBRateLimiter", "WikipediaClient"}
AcquirerTasks == 1..MaxAcquirers

\* What the request that follows acquire() meets; only the TMDB limiter
\* adapts its delay to it.
AcquireResponses == {"200", "429", "500"}

\* A task that is not in acquire(), and the fields a task fills in there:
\* the delay and the last_request_time it read, when its sleep ends, when
\* acquire() returned and how long after the previous return of an acquire()
\* on the limiter that was.
IdleAcquirer ==
    [pc |-> "idle", read_delay |-> 0, read_last |-> NoneTime, wake |-> NoneTime,
     returned_at |-> NoneTime, since_previous |-> NoneTime]

\* A limiter of the client and its tasks, none of them in acquire().
StartLimiter(client) ==
    /\ backoff = [op |-> "none", before |-> 0, throttles |-> 0]
    /\ time_now = 0
    /\ limiter = [client |-> client, last_request_time |-> NoneTime,
                  lock |-> NoTask, last_return |-> NoneTime]
    /\ acquirers = [t \in AcquirerTasks |-> IdleAcquirer]
    /\ current_delay_ms = IF client = "TMDBRateLimiter"
                          THEN base_delay_ms
                          ELSE WIKIPEDIA_RATE_LIMIT_DELAY_MS * DelayScale

\* Task t calls acquire() / _rate_limit().
call_acquire(t) ==
    /\ acquirers[t].pc = "idle"
    /\ acquirers' = [acquirers EXCEPT ![t].pc = "waiting"]
    /\ UNCHANGED <<limiter, current_delay_ms, time_now>>

\* An acquire() that takes no lock.
LockNotTaken == TRUE

\* "async with self._lock:" lets a task in while no task holds the lock.
LockFree == limiter.lock = NoTask

\* "self.last_request_time = datetime.now()", the lock is released and
\* acquire() returns, in one step of the event loop.
ReturnFromAcquire(t, read_delay, read_last) ==
    /\ limiter' = [limiter EXCEPT !.last_request_time = time_now,
                                  !.lock = NoTask,
                                  !.last_return = time_now]
    /\ acquirers' = [acquirers EXCEPT ![t] =
          [pc |-> "acquired", read_delay |-> read_delay, read_last |-> read_last,
           wake |-> acquirers[t].wake, returned_at |-> time_now,
           since_previous |-> IF limiter.last_return = NoneTime
                              THEN NoneTime
                              ELSE time_now - limiter.last_return]]

\* Task t enters the lock and runs up to its first await: with
\* last_request_time None, or wait_time not above 0, it runs through;
\* otherwise it sleeps wait_time with the lock held.
enter_acquire(t) ==
    /\ acquirers[t].pc = "waiting"
    /\ LockFree
    /\ IF limiter.last_request_time = NoneTime
       THEN ReturnFromAcquire(t, current_delay_ms, NoneTime)
       ELSE LET elapsed == time_now - limiter.last_request_time
                wait_time == Max(0, current_delay_ms - elapsed)
            IN IF wait_time > 0
               THEN /\ limiter' = [limiter EXCEPT !.lock = t]
                    /\ acquirers' = [acquirers EXCEPT ![t] =
                          [pc |-> "sleeping", read_delay |-> current_delay_ms,
                           read_last |-> limiter.last_request_time,
                           wake |-> time_now + wait_time,
                           returned_at |-> NoneTime, since_previous |-> NoneTime]]
               ELSE ReturnFromAcquire(t, current_delay_ms, limiter.last_request_time)
    /\ UNCHANGED <<current_delay_ms, time_now>>

\* "await asyncio.sleep(wait_time / 1000)" of task t is over: the sleep lasts
\* wait_time or longer.
wake_acquire(t) ==
    /\ acquirers[t].pc = "sleeping"
    /\ time_now >= acquirers[t].wake
    /\ ReturnFromAcquire(t, acquirers[t].read_delay, acquirers[t].read_last)
    /\ UNCHANGED <<current_delay_ms, time_now>>

\* The request of task t after its acquire(): the TMDB client doubles the
\* delay on a 429 and decays it on a success.
respond_after_acquire(t, response) ==
    /\ acquirers[t].pc = "acquired"
    /\ acquirers' = [acquirers EXCEPT ![t] = IdleAcquirer]
    /\ IF limiter.client = "TMDBRateLimiter"
       THEN /\ response = "200" => Representable09(current_delay_ms)
            /\ current_delay_ms' =
                  DelayAfter("TMDBClient._request", response, current_delay_ms)
       ELSE UNCHANGED current_delay_ms
    /\ UNCHANGED <<limiter, time_now>>

\* Time passes.
Tick ==
    /\ time_now < MaxTicks * TickLength
    /\ time_now' = time_now + TickLength
    /\ UNCHANGED <<limiter, acquirers, current_delay_ms>>

----------------------------------------------------------------------------
(* clients/tmdb.py: TMDBClient._request through its limiter                 *)

\* The task of the model that makes the calls of a logical call, or that is
\* in acquire() while the others are between two awaits of theirs.
TheCaller == CHOOSE t \in AcquirerTasks : TRUE

\* A _request whose acquire() stood before the decorated function, not in it.
acquire_on_first_attempt(attempt_number) == attempt_number = 1

\* "await self.rate_limiter.acquire()" is the first await of the function
\* that @retry decorates, so that every attempt, the first one and each
\* retry, runs it.
acquire_on_attempt(attempt_number) == TRUE

\* A fresh TMDBClient, one task in a logical call of _request; acquires is
\* the delay each acquire() of the call read, in the order of their returns.
StartLimitedRequest ==
    /\ StartLimiter("TMDBRateLimiter")
    /\ request = [NoRequest EXCEPT !.client = "TMDBClient._request",
                                   !.state = "calling"] @@ [acquires |-> <<>>]

\* The attempt of task t begins.
request_call_acquire(t) ==
    /\ request.state = "calling"
    /\ acquire_on_attempt(request.attempt + 1)
    /\ call_acquire(t)
    /\ UNCHANGED request

\* Task t takes the lock of the limiter, or its sleep in acquire() ends.
request_in_acquire(t) ==
    /\ enter_acquire(t) \/ wake_acquire(t)
    /\ request' = IF acquirers'[t].pc = "acquired"
                  THEN [request EXCEPT !.acquires = Append(@, acquirers'[t].read_delay)]
                  ELSE request

\* "response = await self._client.request(method, url, params=params)" of
\* task t and what follows it in the attempt.
request_send(t, response) ==
    /\ acquirers[t].pc = IF acquire_on_attempt(request.attempt + 1)
                         THEN "acquired"
                         ELSE "idle"
    /\ request_attempt(response)
    /\ acquirers' = [acquirers EXCEPT ![t] = IdleAcquirer]
    /\ UNCHANGED <<limiter, time_now>>

----------------------------------------------------------------------------
(* enrichment/run_enrich_content.py, run_enrich_people.py: main and the    *)
(* cycle cursor                                                            *)

MaxRuns == 2        \* runs of the batch runners in a behaviour
MaxFound == 2       \* rows a select of the runner returns
MaxClockCycle == 1  \* enqueue calls in a behaviour of the run model

\* get_current_enrichment_cycle(queue_type): the cursor of the queue class.
get_current_enrichment_cycle(queue_type) == cursor[queue_type]

\* advance_enrichment_cycle(queue_type, items_processed): one step of the
\* cursor, whatever the number of items.
advance_enrichment_cycle(queue_type, items_processed) ==
    [cursor EXCEPT ![queue_type] = (@ + 1) % NumCycles]

\* An argument of a call, with the Python type the call site gives it.
IntArg(n) == [type |-> "int", value |-> n]
StrArg(str) == [type |-> "str", value |-> str]
Missing == [type |-> "missing"]

\* update_content_enrichment_cycle(content_ids: list[str], new_cycle: int):
\* "if not content_ids: return", then len(content_ids).
update_content_enrichment_cycle(content_ids, new_cycle) ==
    IF content_ids.type = "missing" \/ new_cycle.type = "missing" THEN "TypeError"
    ELSE IF content_ids.type = "int"
         THEN IF content_ids.value = 0 THEN "returned" ELSE "TypeError"
         ELSE "returned"

\* update_people_enrichment_cycle(people_ids: list[str], new_cycle: int)
update_people_enrichment_cycle(people_ids, new_cycle) ==
    IF people_ids.type = "missing" \/ new_cycle.type = "missing" THEN "TypeError"
    ELSE IF people_ids.type = "int"
         THEN IF people_ids.value = 0 THEN "returned" ELSE "TypeError"
         ELSE "returned"

\* enrich_from_enrichment_queue of either runner, from the select to the
\* return: `found` rows came back, `results` of them got a TMDB result,
\* upsert_ok tells whether the bulk upsert returned.  The result is
\* stats["processed"], or "raised" when an exception leaves the function.
\* After the upsert the content runner calls
\* update_content_enrichment_cycle(item["tmdb_id"], item["content_type"]) and
\* the people runner update_people_enrichment_cycle(item["tmdb_id"]).
enrich_from_enrichment_queue(runner, found, results, upsert_ok) ==
    IF found = 0 THEN [raised |-> FALSE, processed |-> 0]
    ELSE IF results = 0 THEN [raised |-> FALSE, processed |-> found]
    ELSE IF ~upsert_ok THEN [raised |-> TRUE, processed |-> found]
    ELSE LET updated == IF runner = "content"
                        THEN update_content_enrichment_cycle(IntArg(1), StrArg("movie"))
                        ELSE update_people_enrichment_cycle(IntArg(1), Missing)
         IN [raised |-> updated = "TypeError", processed |-> found]

\* No run has taken place; every cursor is at cycle 0.
IdleCycle ==
    /\ cursor = [qt \in QueueTypes |-> 0]
    /\ history = <<>>

\* What a run leaves in history: its queue class, whether --cycle pinned the
\* cycle, and the active cycle it worked on.
RunRecord(runner, args_cycle, active_cycle) ==
    [queue_type |-> runner, pinned |-> args_cycle # NoCycle, active_cycle |-> active_cycle]

\* The end of main: "if stats['processed'] > 0: advance_enrichment_cycle(...)"
\* inside the try; an exception anywhere before skips it ("except Exception:
\* ... return 1").
FinishRun(runner, args_cycle, active_cycle, stats) ==
    /\ cursor' = IF ~stats.raised /\ stats.processed > 0
                 THEN advance_enrichment_cycle(runner, stats.processed)
                 ELSE cursor
    /\ history' = Append(history, RunRecord(runner, args_cycle, active_cycle))

\* "active_cycle = args.cycle; if active_cycle is None: active_cycle =
\* get_current_enrichment_cycle(...)"
ActiveCycle(runner, args_cycle) ==
    IF args_cycle = NoCycle THEN get_current_enrichment_cycle(runner) ELSE args_cycle

\* main of run_enrich_content / run_enrich_people with --source
\* enrichment-queue (the only source of the people runner).
main_enrichment_queue(runner, args_cycle, found, results, upsert_ok) ==
    /\ Len(history) < MaxRuns
    /\ results <= found
    /\ FinishRun(runner, args_cycle, ActiveCycle(runner, args_cycle),
                 enrich_from_enrichment_queue(runner, found, results, upsert_ok))
    /\ UNCHANGED queueVars

\* main of run_enrich_content with --source import-queue: the rows q the
\* dequeue returned, the positions ok that got a TMDB result.
main_import_queue(args_cycle, batch_size, content_type, q, ok, upsert_ok) ==
    /\ Len(history) < MaxRuns
    /\ enrich_from_import_queue(batch_size, content_type, q, ok, upsert_ok)
    /\ FinishRun("content", args_cycle, ActiveCycle("content", args_cycle),
                 [raised |-> q # <<>> /\ ok # {} /\ ~upsert_ok, processed |-> Len(q)])

----------------------------------------------------------------------------
(* harvester/id_harvester.py: deduplicate_and_queue, harvest_all_strategies *)

MaxHarvestId == 2   \* largest tmdb id a strategy returns or the corpus holds

HarvestIds == 1..MaxHarvestId
Strategies == {"discover", "sequential", "changes"}
DEFAULT_HARVEST_PRIORITY == 5    \* deduplicate_and_queue(..., priority: int = 5)

\* The rows of table content as the harvester reads them.
ContentRows == [tmdb_id : HarvestIds, content_type : ContentTypes]

\* get_all_content_tmdb_ids(content_type): select("tmdb_id").eq("content_type",
\* content_type), read in pages of DB_BATCH_SIZE_READ rows until a page comes
\* short; the ids of all the pages as a set.
get_all_content_tmdb_ids(content, content_type) ==
    {row.tmdb_id : row \in {r \in content : r.content_type = content_type}}

\* deduplicate_and_queue without the subtraction of the stored ids.
new_ids_not_deduplicated(harvested_ids, existing_ids) == harvested_ids

\* "new_ids = harvested_ids - existing_ids"
new_ids(harvested_ids, existing_ids) == harvested_ids \ existing_ids

\* No harvester call is under way.
IdleHarvest == harvest = [op |-> "none"]

\* harvest_all_strategies(content_type, strategies) is called; `results` is
\* what each strategy returns when it is run and `content` the content table.
StartHarvestAll(content_type, strategies, results, content) ==
    harvest = [op |-> "harvest_all_strategies", state |-> "called",
               content_type |-> content_type, strategies |-> strategies,
               results |-> results, content |-> content,
               pc |-> 1, all_ids |-> {}, calls |-> <<>>]

\* What a finished harvest_all_strategies leaves in harvest: the all_ids it
\* collected, whether add_to_import_queue was called and with which ids, the
\* statistics it returns, and the calls it made, those of deduplicate_and_queue
\* (`store_calls`) last.
HarvestReturn(all_ids, called_queue, passed, duplicates_skipped, queued) ==
    [harvest EXCEPT !.state = "returned", !.all_ids = all_ids]
       @@ [called_queue |-> called_queue, passed |-> passed,
           stats |-> [total_harvested |-> Cardinality(all_ids),
                      duplicates_skipped |-> duplicates_skipped,
                      new_queued |-> queued]]

\* The calls of the harvester so far and those in store_calls after them.
Called(h, store_calls) == [h EXCEPT !.calls = h.calls \o store_calls]

\* deduplicate_and_queue without its count of the stored ids.
duplicates_not_counted(harvested_ids, new) == 0

\* "self.stats["duplicates_skipped"] += len(harvested_ids) - len(new_ids)" on
\* the fresh stats of the harvester.
duplicates_skipped(harvested_ids, new) == Cardinality(harvested_ids) - Cardinality(new)

\* deduplicate_and_queue(harvested_ids, content_type, priority), the last
\* step of harvest_all_strategies: "if not harvested_ids: return 0", the read
\* of the stored ids (read_ok: it does not raise), "if not new_ids: return 0",
\* then add_to_import_queue(list(new_ids), content_type, priority).
deduplicate_and_queue(harvested_ids, content_type, priority, read_ok) ==
    IF harvested_ids = {}
    THEN /\ harvest' = HarvestReturn(harvested_ids, FALSE, {}, 0, 0)
         /\ UNCHANGED queueVars
    ELSE IF ~read_ok
    THEN /\ harvest' = Called([harvest EXCEPT !.state = "raised"],
                              <<"get_all_content_tmdb_ids">>)
         /\ UNCHANGED queueVars
    ELSE LET existing_ids == get_all_content_tmdb_ids(harvest.content, content_type)
             new == new_ids(harvested_ids, existing_ids)
             skipped == duplicates_skipped(harvested_ids, new)
         IN IF new = {}
            THEN /\ harvest' = Called(HarvestReturn(harvested_ids, FALSE, {}, skipped, 0),
                                      <<"get_all_content_tmdb_ids">>)
                 /\ UNCHANGED queueVars
            ELSE \E tmdb_ids \in Orderings(new) :
                    /\ add_to_import_queue(tmdb_ids, content_type, priority)
                    /\ harvest' = Called(HarvestReturn(harvested_ids, TRUE, Range(tmdb_ids),
                                                       skipped, lastCall'.total),
                                         <<"get_all_content_tmdb_ids", "add_to_import_queue">>)

\* The order in which harvest_all_strategies tests its strategies.
StrategyOrder == <<"discover", "sequential", "changes">>

\* harvest_all_strategies at its next "if <strategy> in strategies:": a
\* strategy that is named is awaited and all_ids is updated with its ids.
run_strategy ==
    /\ harvest.op = "harvest_all_strategies"
    /\ harvest.state = "called"
    /\ harvest.pc <= Len(StrategyOrder)
    /\ LET strategy == StrategyOrder[harvest.pc]
       IN harvest' =
             IF strategy \in harvest.strategies
             THEN [harvest EXCEPT !.pc = harvest.pc + 1,
                                  !.all_ids = harvest.all_ids \cup harvest.results[strategy],
                                  !.calls = Append(harvest.calls, strategy)]
             ELSE [harvest EXCEPT !.pc = harvest.pc + 1]
    /\ UNCHANGED queueVars

\* Deduplication that does not wait for the last strategy.
strategies_done_early(pc) == pc > 1

\* deduplicate_and_queue is the statement after the last strategy.
strategies_done(pc) == pc > Len(StrategyOrder)

\* harvest_all_strategies(content_type, strategies) once its strategies have
\* run: all_ids is deduplicated and queued, and the statistics are returned.
harvest_all_strategies(read_ok) ==
    /\ harvest.op = "harvest_all_strategies"
    /\ harvest.state = "called"
    /\ strategies_done(harvest.pc)
    /\ deduplicate_and_queue(harvest.all_ids, harvest.content_type,
                             DEFAULT_HARVEST_PRIORITY, read_ok)

----------------------------------------------------------------------------
(* harvester/id_harvester.py: harvest_sequential                            *)

MaxScanId == 4    \* largest tmdb id of the scanned range
MaxChunk == 2     \* largest batch_size handed to harvest_sequential

\* What TMDB answers to the details request of an id, on every attempt.
UpstreamResponses == {"200", "404", "500"}

\* What get_movie_details / get_tv_details comes to when every attempt of
\* _request meets `response`: the details, or the exception _request raises
\* once its attempts are used up.
FetchOutcome(response) ==
    IF ExceptionOf(response) = "none" THEN "ok" ELSE "error"

\* get_content_details_batch(content_items, max_concurrent) from call to end:
\* asyncio.gather(*tasks, return_exceptions=False) raises when a task raised
\* and otherwise returns the results of the tasks in input order.
get_content_details_batch(content_items, outcomes) ==
    IF \E k \in DOMAIN content_items :
          get_details(content_items[k], outcomes[k]) = Raised
    THEN Raised
    ELSE [k \in DOMAIN content_items |-> get_details(content_items[k], outcomes[k])]

\* result["id"] of a details answer
IdOf(result) == result[2][1]

\* The loop of harvest_sequential from batch_start on: one chunk of
\* batch_size ids is fetched as a batch; "if result and result.get("id"):
\* valid_ids.add(result["id"])" for every result of the batch, and a batch
\* that raises is logged and adds nothing.
RECURSIVE ScanFrom(_, _, _, _, _, _)
ScanFrom(content_type, batch_start, end_id, batch_size, upstream, valid_ids) ==
    IF batch_start > end_id
    THEN valid_ids
    ELSE LET batch_end == Min(batch_start + batch_size - 1, end_id)
             ids_to_check == [k \in 1..(batch_end - batch_start + 1) |->
                                 batch_start + k - 1]
             content_items == [k \in DOMAIN ids_to_check |->
                                  <<ids_to_check[k], content_type>>]
             results == get_content_details_batch(content_items,
                           [k \in DOMAIN ids_to_check |->
                               FetchOutcome(upstream[ids_to_check[k]])])
             found == IF results = Raised
                      THEN {}
                      ELSE {IdOf(results[k]) :
                               k \in {j \in DOMAIN results : results[j] # None}}
         IN ScanFrom(content_type, batch_start + batch_size, end_id, batch_size,
                     upstream, valid_ids \cup found)

\* harvest_sequential(content_type, start_id, end_id, batch_size) is called
\* with end_id given or taken from the latest-id endpoint; `upstream` is what
\* TMDB answers for each id.
StartSequential(content_type, start_id, end_id, batch_size, upstream) ==
    harvest = [op |-> "harvest_sequential", state |-> "called",
               content_type |-> content_type, start_id |-> start_id,
               end_id |-> end_id, batch_size |-> batch_size, upstream |-> upstream]

\* harvest_sequential runs to its return.
harvest_sequential ==
    /\ harvest.op = "harvest_sequential"
    /\ harvest.state = "called"
    /\ harvest' = [harvest EXCEPT !.state = "returned"]
                     @@ [valid_ids |-> ScanFrom(harvest.content_type, harvest.start_id,
                                                harvest.end_id, harvest.batch_size,
                                                harvest.upstream, {})]

----------------------------------------------------------------------------
(* harvester/id_harvester.py: harvest_changes;                              *)
(* sync/change_tracker.py: track_content_changes                            *)

MaxFeedPages == 3   \* pages of the changes feeds the model enumerates
MaxPagesArg == 2    \* largest small max_pages handed to harvest_changes

HARVEST_CHANGES_MAX_PAGES == 50   \* harvest_changes(..., max_pages: int = 50)
TRACK_MAX_PAGES == 10             \* track_content_changes: max_pages = 10

ChangesFns == {"harvest_changes", "track_content_changes"}

NoTotalPages == -1
NoFailure == 0

\* The results of one page of the feed: a list of one or more ids.
FeedPages == IdLists \ {<<>>}

\* A feed of n pages that is too long to enumerate: id 1 on every page but
\* the last, id 2 on the last.
LongFeed(n) == [q \in 1..n |-> IF q = n THEN <<2>> ELSE <<1>>]

\* The changes feeds of a date range: every feed of up to MaxFeedPages pages,
\* and one feed that is a page longer than the page limit of
\* track_content_changes.
Feeds ==
    UNION {[1..n -> FeedPages] : n \in 0..MaxFeedPages}
       \cup {LongFeed(TRACK_MAX_PAGES + 1)}

\* result.get("results", []) of the request for `page`
PageResults(pages, page) == IF page \in DOMAIN pages THEN pages[page] ELSE <<>>

\* result.get("total_pages", 0) in harvest_changes and harvest_discover,
\* changes.get("total_pages", 1) in track_content_changes
TotalPagesOr(fn, total_pages) ==
    IF total_pages # NoTotalPages THEN total_pages
    ELSE IF fn = "track_content_changes" THEN 1 ELSE 0

\* A loop that stops after its first page.
LastPageAlways(page, total_pages) == TRUE

\* "if page >= total_pages: break"
LastPage(page, total_pages) == page >= total_pages

\* The loop "while page <= max_pages" of both functions from `page` on: a
\* request that raises and a page without results end the loop, the ids of
\* a page are added, and the loop goes on to the next page unless this was
\* the last one.
RECURSIVE ChangesFrom(_, _, _, _, _, _, _)
ChangesFrom(fn, pages, total_pages, failing, max_pages, page, changed_ids) ==
    IF page > max_pages THEN changed_ids
    ELSE IF page = failing THEN changed_ids
    ELSE LET results == PageResults(pages, page)
         IN IF results = <<>> THEN changed_ids
            ELSE IF LastPage(page, TotalPagesOr(fn, total_pages))
                 THEN changed_ids \o results
                 ELSE ChangesFrom(fn, pages, total_pages, failing, max_pages,
                                  page + 1, changed_ids \o results)

\* harvest_changes(content_type, days_back, max_pages) or
\* track_content_changes(content_type, days) is called; the feed of the date
\* range has `pages` and reports `total_pages`, and the request for page
\* `failing` raises.
StartChanges(fn, content_type, max_pages, pages, total_pages, failing) ==
    harvest = [op |-> fn, state |-> "called", content_type |-> content_type,
               max_pages |-> max_pages, pages |-> pages,
               total_pages |-> total_pages, failing |-> failing]

\* harvest_changes runs to its return: the set of the ids it added.
harvest_changes ==
    /\ harvest.op = "harvest_changes"
    /\ harvest.state = "called"
    /\ harvest' = [harvest EXCEPT !.state = "returned"]
                     @@ [changed_ids |->
                            Range(ChangesFrom("harvest_changes", harvest.pages,
                                              harvest.total_pages, harvest.failing,
                                              harvest.max_pages, 1, <<>>))]

\* track_content_changes runs to its return: the list of the ids it added,
\* with max_pages = 10.
track_content_changes ==
    /\ harvest.op = "track_content_changes"
    /\ harvest.state = "called"
    /\ harvest' = [harvest EXCEPT !.state = "returned"]
                     @@ [changed_ids |->
                            ChangesFrom("track_content_changes", harvest.pages,
                                        harvest.total_pages, harvest.failing,
                                        TRACK_MAX_PAGES, 1, <<>>)]

----------------------------------------------------------------------------
(* harvester/id_harvester.py: harvest_discover                              *)

MaxDiscoverPages == 2   \* pages of a discover listing the model enumerates

HARVEST_MAX_PAGES_PER_REGION == 500

\* The regions and sort orders the model hands to harvest_discover: one
\* country of REGION_CONFIGS and two of TMDB_SORT_ORDERS.
DiscoverRegions == <<"KR">>
DiscoverSortOrders == <<"popularity.desc", "vote_count.desc">>

\* "for region in regions: for sort_order in sort_orders": the combinations
\* in the order the loops visit them.
Combos(regions, sort_orders) ==
    [c \in 1..(Len(regions) * Len(sort_orders)) |->
        <<regions[((c - 1) \div Len(sort_orders)) + 1],
          sort_orders[((c - 1) % Len(sort_orders)) + 1]>>]

\* The results of one page of a discover listing.
DiscoverResults == {<<1>>, <<2>>}

\* The max_pages_per_combo of a call: a small one or the default.
DiscoverCaps == {1, 2, HARVEST_MAX_PAGES_PER_REGION}

\* What TMDB holds for one combination: the pages of the listing, the
\* total_pages it reports (one more than it serves, or none, at times) and
\* the page whose request raises.
Listings ==
    UNION {[pages : {pages}, total_pages : {Len(pages), Len(pages) + 1, NoTotalPages},
            failing : {NoFailure} \cup DOMAIN pages] :
              pages \in UNION {[1..n -> DiscoverResults] : n \in 0..MaxDiscoverPages}}

\* harvest_discover(content_type, regions, sort_orders, max_pages_per_combo)
\* is called and stands before the first request of the first combination.
StartDiscover(content_type, regions, sort_orders, max_pages_per_combo, listings) ==
    harvest = [op |-> "harvest_discover", state |-> "running",
               content_type |-> content_type,
               combos |-> Combos(regions, sort_orders),
               max_pages_per_combo |-> max_pages_per_combo,
               listings |-> listings,
               combo |-> 1, page |-> 1,
               requested |-> [c \in DOMAIN listings |-> <<>>],
               discovered_ids |-> {}]

\* A loop without a page cap.
WithinPageCapAlways(page, max_pages_per_combo) == TRUE

\* "while page <= max_pages_per_combo"
WithinPageCap(page, max_pages_per_combo) == page <= max_pages_per_combo

\* "break", or the end of the while loop: on to the next combination.
NextCombo(h) == [h EXCEPT !.combo = @ + 1, !.page = 1]

\* A harvest_discover whose try block stood around the loops: the exception
\* of a request ends the enumeration.
discover_except_ends_harvest(h) == [h EXCEPT !.combo = Len(h.combos) + 1]

\* "except Exception as e: logger.error(...); break" inside the while loop:
\* the loop over the pages of the combination ends, discovered_ids is left
\* as it is and the for loops go on.
discover_except(h) == NextCombo(h)

\* One pass of the while loop of harvest_discover: the request for the page,
\* "if not results: break", the ids of the page are added, "if page >=
\* total_pages: break", "page += 1"; a request that raises is logged and
\* breaks.
discover_page ==
    /\ harvest.op = "harvest_discover"
    /\ harvest.state = "running"
    /\ harvest.combo \in DOMAIN harvest.combos
    /\ WithinPageCap(harvest.page, harvest.max_pages_per_combo)
    /\ LET listing == harvest.listings[harvest.combo]
           page == harvest.page
           asked == [harvest EXCEPT !.requested[harvest.combo] = Append(@, page)]
           results == PageResults(listing.pages, page)
           added == [asked EXCEPT !.discovered_ids = @ \cup Range(results)]
       IN harvest' =
             IF page = listing.failing THEN discover_except(asked)
             ELSE IF results = <<>> THEN NextCombo(asked)
             ELSE IF LastPage(page, TotalPagesOr("harvest_discover", listing.total_pages))
                  THEN NextCombo(added)
                  ELSE [added EXCEPT !.page = @ + 1]

\* The while loop ends at the page cap.
discover_cap_reached ==
    /\ harvest.op = "harvest_discover"
    /\ harvest.state = "running"
    /\ harvest.combo \in DOMAIN harvest.combos
    /\ ~WithinPageCap(harvest.page, harvest.max_pages_per_combo)
    /\ harvest' = NextCombo(harvest)

\* Every combination is done: "self.stats["discover_ids"] +=
\* len(discovered_ids)" and "return discovered_ids".
discover_return ==
    /\ harvest.op = "harvest_discover"
    /\ harvest.state = "running"
    /\ harvest.combo \notin DOMAIN harvest.combos
    /\ harvest' = [harvest EXCEPT !.state = "returned"]
                     @@ [stats |-> [discover_ids |-> Cardinality(harvest.discovered_ids)]]

----------------------------------------------------------------------------
(* enrichment/wiki_enricher.py: WikiEnricher.enrich_content;                *)
(* enrichment/people_enricher.py: _enrich_biography_from_wikipedia;         *)
(* enrichment/run_enrich_content.py, run_enrich_people.py: the merge        *)

MaxPrimaryLen == 2   \* longest TMDB overview or biography of the model
MaxNames == 2        \* longest genre, keyword or category list of the model

WIKI_KEYWORDS_LIMIT == 20    \* "for cat_name in cleaned[:20]"

\* A text is a sequence of characters: a TMDB text is of blanks and letters,
\* a Wikipedia text is letters, up to a letter more than twice the longest
\* TMDB text.
PrimaryTexts == UNION {[1..n -> {" ", "x"}] : n \in 0..MaxPrimaryLen}
WikiTexts == {[i \in 1..n |-> "w"] : n \in 0..(2 * MaxPrimaryLen + 1)}

\* None in a field that holds an id string
NoneId == "none"
WikidataIds == {"Q1", "Q2"}

\* The genre, keyword and category names of the model; two of them are equal
\* but for their case, and one holds a pattern of SKIP_CATEGORY_PATTERNS.
Names == {"Drama", "drama", "Crime"}
CategoryNames == Names \cup {"Articles"}

\* str.lower()
Lower(name) ==
    CASE name = "Drama" -> "drama"
      [] name = "Crime" -> "crime"
      [] name = "Articles" -> "articles"
      [] OTHER -> name

\* "any(p in cat_name for p in SKIP_CATEGORY_PATTERNS)"
SkipCategory(cat_name) == cat_name = "Articles"

NameLists(names) == UNION {[1..n -> names] : n \in 0..MaxNames}

\* The genres and keyword names of a TMDB record: no name twice.
TmdbNameLists == {l \in NameLists(Names) : ~HasDuplicates(l)}

\* "not text" of Python: None and the empty string.
Falsy(text) == text = None \/ text = <<>>

\* str.strip()
Strip(text) ==
    LET inked == {i \in DOMAIN text : text[i] # " "}
    IN IF inked = {} THEN <<>>
       ELSE SubSeq(text, CHOOSE i \in inked : \A j \in inked : i <= j,
                         CHOOSE i \in inked : \A j \in inked : i >= j)

\* [x for x in s if keep(x)], for keep given as the set of kept positions
RECURSIVE Filter(_, _, _)
Filter(s, kept, i) ==
    IF i > Len(s) THEN <<>>
    ELSE (IF i \in kept THEN <<s[i]>> ELSE <<>>) \o Filter(s, kept, i + 1)

\* A dict is a function of its keys; d.update(e).
EmptyDict == <<>>
Update(d, e) == [k \in DOMAIN d \cup DOMAIN e |-> IF k \in DOMAIN e THEN e[k] ELSE d[k]]

\* A merge rule that lets the Wikipedia text win always.
use_wiki_always(current_overview, wiki_overview) == TRUE

\* "use_wiki = (not current_overview or len(wiki_overview) >
\* len(current_overview) * 2)"
use_wiki(current_overview, wiki_overview) ==
    IF Falsy(current_overview) THEN TRUE
    ELSE Len(wiki_overview) > Len(current_overview) * 2

\* An override that does not record its source.
overview_override_unattributed(wiki_overview) == [overview |-> wiki_overview]

\* "enrichment["overview"] = wiki_overview; enrichment["overview_source"] =
\* "wikipedia""
overview_override(wiki_overview) ==
    [overview |-> wiki_overview, overview_source |-> "wikipedia"]

\* The overview part of enrich_content, the same for the full article and
\* for the summary: "if wiki_overview:" and the merge rule.
enrich_overview(current_overview, wiki_overview) ==
    IF ~Falsy(wiki_overview) /\ use_wiki(current_overview, wiki_overview)
    THEN overview_override(wiki_overview)
    ELSE EmptyDict

\* The categories part of enrich_content: the categories are cleaned of the
\* meta-categories, the first 20 of them that are not a keyword already,
\* ignoring case, are appended to the keywords.
enrich_keywords(current_keywords, categories) ==
    LET cleaned == Filter(categories,
                          {i \in DOMAIN categories : ~SkipCategory(categories[i])}, 1)
        merged_keywords == current_keywords
        existing_names == {Lower(merged_keywords[i].name) : i \in DOMAIN merged_keywords}
        first == SubSeq(cleaned, 1, Min(Len(cleaned), WIKI_KEYWORDS_LIMIT))
        fresh == Filter(first, {i \in DOMAIN first : Lower(first[i]) \notin existing_names}, 1)
        new_keywords == [i \in DOMAIN fresh |-> [name |-> fresh[i], source |-> "wikipedia"]]
    IN IF categories # <<>> /\ new_keywords # <<>>
       THEN [keywords |-> merged_keywords \o new_keywords]
       ELSE EmptyDict

\* The genres part of enrich_content: "merged_genres = list(set(current_genres
\* or []) | set(wikidata_genres))", a list in the order the set iterates,
\* which Python leaves open; kept when it is longer than current_genres.
enrich_genres(current_genres, wikidata_genres, merged_genres) ==
    IF wikidata_genres # <<>> /\ Len(merged_genres) > Len(current_genres)
    THEN [genres |-> merged_genres]
    ELSE EmptyDict

NoEntity == [wikidata_id |-> NoneId, wikipedia_title |-> FALSE]

\* WikiEnricher.enrich_content(tmdb_id, content_type, current_overview,
\* current_genres, current_keywords): nothing without a Wikidata entity; the
\* entity's wikidata_id always; overview and keywords when the entity has a
\* Wikipedia title; the genres of the entity's metadata.
wiki_enrich_content(current_overview, current_genres, current_keywords, wiki, merged_genres) ==
    IF wiki.wikidata_entity = NoEntity THEN EmptyDict
    ELSE Update(Update(Update([wikidata_id |-> wiki.wikidata_entity.wikidata_id],
             IF wiki.wikidata_entity.wikipedia_title
             THEN enrich_overview(current_overview, wiki.wiki_overview)
             ELSE EmptyDict),
             IF wiki.wikidata_entity.wikipedia_title
             THEN enrich_keywords(current_keywords, wiki.categories)
             ELSE EmptyDict),
             enrich_genres(current_genres, wiki.wikidata_genres, merged_genres))

\* PeopleEnricher._enrich_biography_from_wikipedia(name, also_known_as,
\* tmdb_biography) once the lookup of the name has given wikipedia_bio (None
\* when no page with an extract was found) and wikipedia_url.
enrich_biography_from_wikipedia(tmdb_biography, wikipedia_bio, wikipedia_url) ==
    IF Falsy(wikipedia_bio) THEN EmptyDict
    ELSE LET use_wiki_bio ==
                IF Falsy(tmdb_biography) \/ Len(Strip(tmdb_biography)) = 0 THEN TRUE
                ELSE Len(wikipedia_bio) > Len(tmdb_biography) * 2
         IN Update(IF use_wiki_bio
                   THEN [biography |-> wikipedia_bio, bio_source |-> "wikipedia"]
                   ELSE EmptyDict,
                   IF wikipedia_url THEN [wikipedia_url |-> "url"] ELSE EmptyDict)

\* No merge is under way.
IdleMerge == merge = [op |-> "none"]

\* No entry point is running.
IdleRun == run = [entry |-> "none"]

\* The linker has not been called.
IdleLink == link = [op |-> "none"]

----------------------------------------------------------------------------
(* The entry points and their calls of the store *)

\* One call site of an entry point, in the order in which main reaches it:
\* `store` says whether it is a call of the store, `caught` whether an
\* exception raised there is caught before it reaches main's handler,
\* `outcomes` what the call can come to ("empty" is a call that gave no rows,
\* or that was not made because there was nothing to hand over),
\* `empty_skips` how many of the following sites are passed over when the
\* site gave nothing, and `needs` the site that must have given rows for this
\* one to have anything to work on.
Site(call, store, caught, outcomes, empty_skips, needs) ==
    [call |-> call, store |-> store, caught |-> caught, outcomes |-> outcomes,
     empty_skips |-> empty_skips, needs |-> needs]

AnyOutcome == {"rows", "empty", "raises"}
RowsOrRaises == {"rows", "raises"}

\* quality/run_quality_report.py main: generate_report reads content (and,
\* unless it is empty, its jsonb counts and the cast and crew stats), then
\* people (and their jsonb counts); save_report inserts the report; with
\* --queue-poor-quality the high priority items are enqueued.
QualityReportSites(queue_poor_quality) ==
    <<Site("_fetch_all_content", TRUE, TRUE, AnyOutcome, 2, "none"),
      Site("_fetch_content_jsonb_counts", TRUE, TRUE, RowsOrRaises, 0, "none"),
      Site("_fetch_cast_crew_stats", TRUE, TRUE, RowsOrRaises, 0, "none"),
      Site("_fetch_all_people", TRUE, TRUE, AnyOutcome, 1, "none"),
      Site("_fetch_people_jsonb_counts", TRUE, TRUE, RowsOrRaises, 0, "none"),
      Site("save_report", TRUE, TRUE, RowsOrRaises, 0, "none")>>
    \o IF queue_poor_quality
       THEN <<Site("queue_poor_quality_content", TRUE, FALSE, AnyOutcome, 0,
                   "_fetch_all_content"),
              Site("queue_poor_quality_people", TRUE, FALSE, AnyOutcome, 0,
                   "_fetch_all_people")>>
       ELSE <<>>

\* enrichment/run_enrich_content.py main with --source import-queue.
EnrichContentSites ==
    <<Site("get_current_enrichment_cycle", TRUE, FALSE, RowsOrRaises, 0, "none"),
      Site("get_import_queue_batch", TRUE, FALSE, AnyOutcome, 3, "none"),
      Site("upsert_content_bulk", TRUE, FALSE, AnyOutcome, 1, "none"),
      Site("mark_import_queue_completed", TRUE, FALSE, RowsOrRaises, 0, "none"),
      Site("advance_enrichment_cycle", TRUE, FALSE, RowsOrRaises, 0, "none")>>

\* enrichment/run_enrich_people.py main.
EnrichPeopleSites ==
    <<Site("get_current_enrichment_cycle", TRUE, FALSE, RowsOrRaises, 0, "none"),
      Site("get_people_needing_enrichment", TRUE, FALSE, AnyOutcome, 2, "none"),
      Site("upsert_people_bulk", TRUE, FALSE, AnyOutcome, 0, "none"),
      Site("advance_enrichment_cycle", TRUE, FALSE, RowsOrRaises, 0, "none")>>

\* sync/run_sync_changes.py main with --type all: for movies, for tv and for
\* people the ids of the store are read and the matched ones are enqueued.
SyncChangesSites ==
    <<Site("get_all_content_tmdb_ids(movie)", TRUE, FALSE, AnyOutcome, 1, "none"),
      Site("bulk_add_to_enrichment_queue(movie)", TRUE, FALSE, RowsOrRaises, 0, "none"),
      Site("get_all_content_tmdb_ids(tv)", TRUE, FALSE, AnyOutcome, 1, "none"),
      Site("bulk_add_to_enrichment_queue(tv)", TRUE, FALSE, RowsOrRaises, 0, "none"),
      Site("get_all_people_tmdb_ids", TRUE, FALSE, AnyOutcome, 1, "none"),
      Site("bulk_add_to_enrichment_queue(people)", TRUE, FALSE, RowsOrRaises, 0, "none")>>

\* harvester/run_harvest.py main: it calls run_harvest with max_pages,
\* regions, days_back, start_id, end_id and dry_run, which run_harvest
\* (content_types, strategies) does not take: the call raises TypeError
\* before any harvester is built.
HarvestSites ==
    <<Site("run_harvest", FALSE, FALSE, {"raises"}, 0, "none")>>

EntryPoints == {"harvest", "enrich_content", "enrich_people", "sync_changes",
                "quality_report", "quality_report --queue-poor-quality"}

EntrySites(entry) ==
    CASE entry = "harvest" -> HarvestSites
      [] entry = "enrich_content" -> EnrichContentSites
      [] entry = "enrich_people" -> EnrichPeopleSites
      [] entry = "sync_changes" -> SyncChangesSites
      [] entry = "quality_report" -> QualityReportSites(FALSE)
      [] entry = "quality_report --queue-poor-quality" -> QualityReportSites(TRUE)

\* main of `entry` has entered its try block.
StartRun(entry) ==
    run = [entry |-> entry, sites |-> EntrySites(entry), state |-> "running",
           pc |-> 1, rows |-> {}, raised |-> {}]

\* What main does with an exception raised at a call site: one that a
\* try/except around the site has caught leaves main running.
reaches_main(site) == ~site.caught

\* main reaches its next call site, which comes to `outcome`.  An exception
\* that reaches main's `except Exception` makes it return 1; one caught on
\* the way is logged and the callee returns its empty default.
run_call(outcome) ==
    /\ run.entry # "none"
    /\ run.state = "running"
    /\ run.pc <= Len(run.sites)
    /\ LET site == run.sites[run.pc]
           gave_nothing == outcome # "rows"
       IN /\ outcome \in site.outcomes
          /\ (site.needs # "none" /\ site.needs \notin run.rows) => outcome = "empty"
          /\ IF outcome = "raises" /\ reaches_main(site)
             THEN run' = [entry |-> run.entry, sites |-> run.sites, state |-> "exited",
                          pc |-> run.pc, rows |-> run.rows,
                          raised |-> IF site.store THEN run.raised \cup {site.call}
                                     ELSE run.raised,
                          status |-> 1]
             ELSE run' = [run EXCEPT
                            !.pc = run.pc + 1 + (IF gave_nothing THEN site.empty_skips ELSE 0),
                            !.rows = IF outcome = "rows" THEN run.rows \cup {site.call}
                                     ELSE run.rows,
                            !.raised = IF outcome = "raises" /\ site.store
                                       THEN run.raised \cup {site.call}
                                       ELSE run.raised]

\* main has passed its last call site: it prints its summary and returns 0.
run_exit ==
    /\ run.entry # "none"
    /\ run.state = "running"
    /\ run.pc > Len(run.sites)
    /\ run' = [entry |-> run.entry, sites |-> run.sites, state |-> "exited",
               pc |-> run.pc, rows |-> run.rows, raised |-> run.raised,
               status |-> 0]

\* ContentEnricher.enrich_content has built the record of an item from its
\* TMDB details, overview_source "tmdb" and the wikidata_id of the external
\* ids included, and the runner is about to enrich it from `wiki`, what
\* Wikidata and Wikipedia hold for the item.
StartContentMerge(overview, genres, keyword_names, wikidata_id, wiki) ==
    merge = [op |-> "content", state |-> "called",
             tmdb_data |-> [overview |-> overview, overview_source |-> "tmdb",
                            genres |-> genres,
                            keywords |-> [i \in DOMAIN keyword_names |->
                                             [name |-> keyword_names[i], source |-> "tmdb"]],
                            wikidata_id |-> wikidata_id],
             wiki |-> wiki]

\* PeopleEnricher.enrich_person has built the record of a person, bio_source
\* "tmdb", and the runner is about to enrich it from Wikipedia.
StartPersonMerge(biography, wikipedia_bio, wikipedia_url) ==
    merge = [op |-> "people", state |-> "called",
             tmdb_data |-> [biography |-> biography, bio_source |-> "tmdb"],
             wiki |-> [wikipedia_bio |-> wikipedia_bio, wikipedia_url |-> wikipedia_url]]

\* One pass of the Phase 2 loop of enrich_from_enrichment_queue and
\* enrich_from_import_queue: "wiki_data = await wiki_enricher.enrich_content(
\* ...)", "if wiki_data: tmdb_data.update(wiki_data)"; an exception of the
\* wiki enrichment is logged and leaves tmdb_data as it was.
merge_content(merged_genres) ==
    /\ merge.op = "content"
    /\ merge.state = "called"
    /\ LET tmdb_data == merge.tmdb_data
           wiki_data == wiki_enrich_content(tmdb_data.overview, tmdb_data.genres,
                                            tmdb_data.keywords, merge.wiki, merged_genres)
       IN merge' = [merge EXCEPT !.state = "merged"]
                      @@ [wiki_data |-> IF merge.wiki.raises THEN EmptyDict ELSE wiki_data,
                          merged |-> IF merge.wiki.raises \/ DOMAIN wiki_data = {}
                                     THEN tmdb_data
                                     ELSE Update(tmdb_data, wiki_data)]

\* One pass of the Phase 2 loop of run_enrich_people.enrich_from_queue.
merge_person ==
    /\ merge.op = "people"
    /\ merge.state = "called"
    /\ LET person == merge.tmdb_data
           wiki_data == enrich_biography_from_wikipedia(person.biography,
                           merge.wiki.wikipedia_bio, merge.wiki.wikipedia_url)
       IN merge' = [merge EXCEPT !.state = "merged"]
                      @@ [wiki_data |-> wiki_data,
                          merged |-> IF DOMAIN wiki_data = {} THEN person
                                     ELSE Update(person, wiki_data)]

----------------------------------------------------------------------------
(* Specifications of the work queue *)

\* Both queues are empty and no queue call has been made.
EmptyQueues ==
    /\ import_queue = {}
    /\ enrichment_queue = {}
    /\ clock = 0
    /\ lastCall = NoCall

InitQueue ==
    /\ EmptyQueues
    /\ IdleBatch
    /\ IdleRequest
    /\ IdleCycle
    /\ IdleHarvest
    /\ IdleLimiter
    /\ IdleMerge
    /\ IdleRun
    /\ IdleLink

Init == InitQueue

\* A step of the work queue leaves the batch calls, the requesters and the
\* cycle cursor alone.
QueueStep(A) ==
    A /\ UNCHANGED <<batchVars, reqVars, cycleVars, harvestVars, limiterVars, mergeVars, runVars, linkVars>>

\* A run of enrich_from_import_queue in which every fetch and the upsert succeed.
CompleteRun ==
    \E bs \in 1..MaxLimit :
       \E q \in QueryResults(ImportCandidates(import_queue, NoFilter), bs) :
          enrich_from_import_queue(bs, NoFilter, q, DOMAIN q, TRUE)

\* upsert_content_bulk is reached only when some fetch gave a result.
AnyRun ==
    \E bs \in 1..MaxLimit, ct \in ContentTypes \cup {NoFilter} :
       \E q \in QueryResults(ImportCandidates(import_queue, ct), bs) :
          \E ok \in SUBSET DOMAIN q :
             \E upsert_ok \in IF ok = {} THEN {TRUE} ELSE BOOLEAN :
                enrich_from_import_queue(bs, ct, q, ok, upsert_ok)

EnqueueImport ==
    \E tmdb_ids \in IdLists, ct \in ContentTypes, p \in PrioritySample :
       add_to_import_queue(tmdb_ids, ct, p)

EnqueueEnrich ==
    \E qt \in QueueTypes, entity_ids \in IdLists, p \in PrioritySample, c \in CycleSample :
       add_to_enrichment_queue(qt, entity_ids, p, c)

EnqueueBulk ==
    \E tmdb_ids \in IdLists, qt \in QueueTypes, ct \in ContentTypes \cup {NoFilter},
       p \in PrioritySample :
       bulk_add_to_enrichment_queue(tmdb_ids, qt, ct, p)

DequeueImport ==
    \E ct \in ContentTypes \cup {NoFilter}, limit \in 1..MaxLimit :
       get_import_queue_batch(ct, limit)

DequeueEnrich ==
    \E qt \in QueueTypes, c \in CycleSample \cup {NoCycle}, limit \in 1..MaxLimit :
       get_enrichment_queue_batch(qt, c, limit)

MarkEnrich ==
    \E ids \in SUBSET {r.id : r \in enrichment_queue} :
       mark_enrichment_queue_completed(ids)

\* import_queue and enrichment_queue share no operation: a behaviour of the
\* queue specifications works on one of the two tables.
OnImport(A) == enrichment_queue = {} /\ QueueStep(A)
OnEnrichment(A) == import_queue = {} /\ QueueStep(A)

\* A behaviour makes at most n enqueue calls that take a timestamp.
Before(n, A) == clock < n /\ A

\* The enqueue operations of both queues, with completions in between.
NextQueue ==
    \/ OnImport(Before(MaxClock, EnqueueImport))
    \/ OnImport(CompleteRun)
    \/ OnEnrichment(Before(MaxClock, EnqueueEnrich))
    \/ OnEnrichment(Before(MaxClock, EnqueueBulk))
    \/ OnEnrichment(MarkEnrich)

Next == NextQueue

Spec == Init /\ [][Next]_vars

\* The enqueue calls that fill the queues of the dequeue model: their id
\* lists name no id twice, so every call writes its rows.
DistinctIdLists == {l \in IdLists : ~HasDuplicates(l)}

FillImport ==
    \E tmdb_ids \in DistinctIdLists, ct \in ContentTypes, p \in PrioritySample :
       add_to_import_queue(tmdb_ids, ct, p)

FillEnrich ==
    \E qt \in QueueTypes, entity_ids \in DistinctIdLists, p \in PrioritySample :
       add_to_enrichment_queue(qt, entity_ids, p, DefaultCycle)

\* The dequeue operations over the queues the enqueue operations build.
NextDequeue ==
    \/ OnImport(Before(MaxClockDequeue, FillImport))
    \/ OnImport(CompleteRun)
    \/ OnImport(DequeueImport)
    \/ OnEnrichment(Before(MaxClockDequeue, FillEnrich))
    \/ OnEnrichment(DequeueEnrich)

SpecDequeue == Init /\ [][NextDequeue]_vars

\* Import-queue runs with every outcome of the fetches and of the upsert.
NextImportRun ==
    \/ QueueStep(Before(MaxClock, EnqueueImport))
    \/ QueueStep(AnyRun)

SpecImportRun == Init /\ [][NextImportRun]_vars

\* Enqueues into one cycle bucket, the last of the cycles, and dequeues
\* filtered on any cycle or on none.
BucketCycle == NumCycles - 1

EnqueueInCycle ==
    \E qt \in QueueTypes, entity_ids \in IdLists, p \in PrioritySample :
       add_to_enrichment_queue(qt, entity_ids, p, BucketCycle)

NextCycleBucket ==
    \/ OnEnrichment(Before(MaxClock, EnqueueInCycle))
    \/ OnEnrichment(DequeueEnrich)

SpecCycleBucket == Init /\ [][NextCycleBucket]_vars

\* Repeated import-queue runs with one batch size, of a queue some of whose
\* items TMDB has no record of: the fetch of such an item fails on every run,
\* every other fetch and the upsert succeed.
RunBatchSize == 1
UnavailableIds == {1}

RepeatedRun ==
    \E q \in QueryResults(ImportCandidates(import_queue, NoFilter), RunBatchSize) :
       enrich_from_import_queue(RunBatchSize, NoFilter, q,
                                {i \in DOMAIN q : q[i].tmdb_id \notin UnavailableIds}, TRUE)

NextRepeatedRuns ==
    \/ QueueStep(Before(MaxClock, EnqueueImport))
    \/ QueueStep(RepeatedRun)

\* The scheduler starts the runner again and again: a run that can change
\* the queue takes place.
SpecRepeatedRuns ==
    Init /\ [][NextRepeatedRuns]_vars /\ WF_vars(QueueStep(RepeatedRun))

----------------------------------------------------------------------------
(* Specifications of the batch calls *)

BatchStep(A) ==
    A /\ UNCHANGED <<queueVars, reqVars, cycleVars, harvestVars, limiterVars, mergeVars, runVars, linkVars>>

InitBatch(fns) ==
    /\ EmptyQueues
    /\ IdleRequest
    /\ IdleCycle
    /\ IdleHarvest
    /\ IdleLimiter
    /\ IdleMerge
    /\ IdleRun
    /\ IdleLink
    /\ \E fn \in fns, max_concurrent \in 1..MaxConcurrent :
          \E list \in ItemLists(fn) : StartBatch(fn, list, max_concurrent)

AcquireSemaphore == \E i \in DOMAIN items : acquire_semaphore(i)

FetchOneDetails ==
    \E i \in DOMAIN items, outcome \in FetchOutcomes : fetch_one_details(i, outcome)

FetchOneEnrich ==
    \E i \in DOMAIN items, outcome \in FetchOutcomes : fetch_one_enrich(i, outcome)

\* One call of get_content_details_batch or get_people_details_batch.
NextDetailsBatch ==
    \/ BatchStep(AcquireSemaphore)
    \/ BatchStep(FetchOneDetails)
    \/ BatchStep(gather_details)

SpecDetailsBatch == InitBatch(DetailsBatchFns) /\ [][NextDetailsBatch]_vars

\* One call of ContentEnricher.enrich_batch or PeopleEnricher.enrich_batch.
NextEnrichBatch ==
    \/ BatchStep(AcquireSemaphore)
    \/ BatchStep(FetchOneEnrich)
    \/ BatchStep(gather_enrich)

SpecEnrichBatch == InitBatch(EnrichBatchFns) /\ [][NextEnrichBatch]_vars

\* A call of any of the four batch functions.
OnDetails(A) == gathered.fn \in DetailsBatchFns /\ BatchStep(A)
OnEnrich(A) == gathered.fn \in EnrichBatchFns /\ BatchStep(A)

NextBatch ==
    \/ BatchStep(AcquireSemaphore)
    \/ OnDetails(FetchOneDetails)
    \/ OnDetails(gather_details)
    \/ OnEnrich(FetchOneEnrich)
    \/ OnEnrich(gather_enrich)

SpecBatch == InitBatch(DetailsBatchFns \cup EnrichBatchFns) /\ [][NextBatch]_vars

----------------------------------------------------------------------------
(* Specification of the requesters *)

InitRequest ==
    /\ EmptyQueues
    /\ IdleBatch
    /\ IdleCycle
    /\ IdleHarvest
    /\ IdleLimiter
    /\ IdleMerge
    /\ IdleRun
    /\ IdleLink
    /\ \E client \in Requesters : StartRequest(client)

RequestAttempt == \E response \in Responses : request_attempt(response)

NextRequest ==
    /\ RequestAttempt
    /\ UNCHANGED <<queueVars, batchVars, cycleVars, harvestVars, limiterVars, mergeVars, runVars, linkVars>>

SpecRequest == InitRequest /\ [][NextRequest]_vars

----------------------------------------------------------------------------
(* Specification of the batch runners *)

\* A run of either runner on the enrichment queue source.
RunEnrichmentQueue ==
    \E runner \in QueueTypes, args_cycle \in CycleSample \cup {NoCycle},
       found \in 0..MaxFound, upsert_ok \in BOOLEAN :
       \E results \in 0..found :
          main_enrichment_queue(runner, args_cycle, found, results, upsert_ok)

\* A run of the content runner on the import queue source.
RunImportQueue ==
    \E args_cycle \in CycleSample \cup {NoCycle}, bs \in 1..MaxLimit,
       ct \in ContentTypes \cup {NoFilter} :
       \E q \in QueryResults(ImportCandidates(import_queue, ct), bs) :
          \E ok \in SUBSET DOMAIN q :
             \E upsert_ok \in IF ok = {} THEN {TRUE} ELSE BOOLEAN :
                main_import_queue(args_cycle, bs, ct, q, ok, upsert_ok)

NextRuns ==
    \/ QueueStep(Before(MaxClockCycle, FillImport))
    \/ RunEnrichmentQueue /\ UNCHANGED <<batchVars, reqVars, harvestVars, limiterVars, mergeVars, runVars, linkVars>>
    \/ RunImportQueue /\ UNCHANGED <<batchVars, reqVars, harvestVars, limiterVars, mergeVars, runVars, linkVars>>

SpecRuns == Init /\ [][NextRuns]_vars

----------------------------------------------------------------------------
(* Specification of harvest_all_strategies *)

\* What the strategies of a call return: a strategy that is not named in
\* strategies is not run and gives nothing.
StrategyResults(strategies) ==
    {res \in [Strategies -> SUBSET HarvestIds] :
        \A st \in Strategies \ strategies : res[st] = {}}

InitHarvestAll ==
    /\ EmptyQueues
    /\ IdleBatch
    /\ IdleRequest
    /\ IdleCycle
    /\ IdleLimiter
    /\ IdleMerge
    /\ IdleRun
    /\ IdleLink
    /\ \E content_type \in ContentTypes, strategies \in SUBSET Strategies,
          content \in SUBSET ContentRows :
          \E results \in StrategyResults(strategies) :
             StartHarvestAll(content_type, strategies, results, content)

HarvestAllStrategies == \E read_ok \in BOOLEAN : harvest_all_strategies(read_ok)

NextHarvestAll ==
    \/ run_strategy /\ UNCHANGED <<batchVars, reqVars, cycleVars, limiterVars, mergeVars, runVars, linkVars>>
    \/ HarvestAllStrategies /\ UNCHANGED <<batchVars, reqVars, cycleVars, limiterVars, mergeVars, runVars, linkVars>>

SpecHarvestAll == InitHarvestAll /\ [][NextHarvestAll]_vars

----------------------------------------------------------------------------
(* Specification of the limiter's delay *)

\* A fresh TMDBRateLimiter: current_delay_ms = base_delay_ms.
InitBackoff ==
    /\ EmptyQueues
    /\ IdleBatch
    /\ IdleRequest
    /\ IdleCycle
    /\ IdleHarvest
    /\ IdleLimiter
    /\ IdleMerge
    /\ IdleRun
    /\ IdleLink

BackoffStep(A) ==
    /\ A
    /\ UNCHANGED <<queueVars, batchVars, request, cycleVars, harvestVars,
                   time_now, limiter, acquirers, mergeVars, runVars, linkVars>>

\* Any sequence of 429s and successes.
NextBackoff ==
    \/ BackoffStep(IncreaseDelay)
    \/ BackoffStep(ResetDelay)

SpecBackoff == InitBackoff /\ [][NextBackoff]_vars

----------------------------------------------------------------------------
(* Specification of acquire() *)

InitAcquire ==
    /\ EmptyQueues
    /\ IdleBatch
    /\ IdleCycle
    /\ IdleHarvest
    /\ request = NoRequest
    /\ IdleMerge
    /\ IdleRun
    /\ IdleLink
    /\ \E client \in Limiters : StartLimiter(client)

AcquireStep(A) ==
    /\ A
    /\ UNCHANGED <<queueVars, batchVars, request, cycleVars, harvestVars, backoff,
                   mergeVars, runVars, linkVars>>

CallAcquire == \E t \in AcquirerTasks : call_acquire(t)
EnterAcquire == \E t \in AcquirerTasks : enter_acquire(t)
WakeAcquire == \E t \in AcquirerTasks : wake_acquire(t)
RespondAfterAcquire ==
    \E t \in AcquirerTasks, response \in AcquireResponses :
       respond_after_acquire(t, response)

\* Tasks that go through acquire() and a request, again and again, on one
\* limiter while time passes.
NextAcquire ==
    \/ AcquireStep(CallAcquire)
    \/ AcquireStep(EnterAcquire)
    \/ AcquireStep(WakeAcquire)
    \/ AcquireStep(RespondAfterAcquire)
    \/ AcquireStep(Tick)

SpecAcquire == InitAcquire /\ [][NextAcquire]_vars

----------------------------------------------------------------------------
(* Specification of _request through its limiter *)

InitLimitedRequest ==
    /\ EmptyQueues
    /\ IdleBatch
    /\ IdleCycle
    /\ IdleHarvest
    /\ IdleMerge
    /\ IdleRun
    /\ IdleLink
    /\ StartLimitedRequest

LimitedStep(A) ==
    /\ A
    /\ UNCHANGED <<queueVars, batchVars, cycleVars, harvestVars, backoff,
                   mergeVars, runVars, linkVars>>

\* One logical call of _request by one task while time passes.
NextLimitedRequest ==
    \/ LimitedStep(request_call_acquire(TheCaller))
    \/ LimitedStep(request_in_acquire(TheCaller))
    \/ \E response \in Responses : LimitedStep(request_send(TheCaller, response))
    \/ AcquireStep(Tick)

SpecLimitedRequest == InitLimitedRequest /\ [][NextLimitedRequest]_vars

----------------------------------------------------------------------------
(* Specification of the limiter's recovery *)

\* The 429s of the behaviour are over: the responses from here on pass
\* raise_for_status().
ThrottlesStopped == backoff.op = "recovery"

\* A response after the last 429 calls rate_limiter.reset_delay(), whatever
\* the delay: where current_delay_ms * 0.9 has more decimal places than the
\* model keeps, the product is rounded to the unit of the model, as Python
\* rounds it to a float.
RecoverySuccess ==
    /\ current_delay_ms' = reset_delay(current_delay_ms)
    /\ backoff' = [op |-> "recovery", before |-> current_delay_ms,
                   throttles |-> IF current_delay_ms' = base_delay_ms
                                 THEN 0
                                 ELSE NotCounted]

\* Any sequence of 429s and successes, up to the last 429 of the behaviour,
\* and the successes after it.
NextRecovery ==
    \/ BackoffStep(~ThrottlesStopped /\ IncreaseDelay)
    \/ BackoffStep(~ThrottlesStopped /\ ResetDelay)
    \/ BackoffStep(RecoverySuccess)

\* The requests keep succeeding: a success that changes the limiter is not
\* put off for ever.
SpecRecovery ==
    InitBackoff /\ [][NextRecovery]_vars /\ WF_vars(BackoffStep(RecoverySuccess))

----------------------------------------------------------------------------
(* Specification of the limiter under concurrent callers *)

InitLimiterCalls ==
    /\ EmptyQueues
    /\ IdleBatch
    /\ IdleCycle
    /\ IdleHarvest
    /\ request = NoRequest
    /\ IdleMerge
    /\ IdleRun
    /\ IdleLink
    /\ StartLimiter("TMDBRateLimiter")

\* A task goes through acquire() and its request on the TMDB limiter, again
\* and again, while other tasks call increase_delay() and reset_delay() in
\* any order: at every await of the task, and between any two steps of it.
NextLimiterCalls ==
    \/ AcquireStep(call_acquire(TheCaller))
    \/ AcquireStep(enter_acquire(TheCaller))
    \/ AcquireStep(wake_acquire(TheCaller))
    \/ AcquireStep(\E response \in AcquireResponses :
                       respond_after_acquire(TheCaller, response))
    \/ AcquireStep(Tick)
    \/ BackoffStep(IncreaseDelay)
    \/ BackoffStep(ResetDelay)

SpecLimiterCalls == InitLimiterCalls /\ [][NextLimiterCalls]_vars

----------------------------------------------------------------------------
(* Specification of harvest_sequential *)

InitSequential ==
    /\ EmptyQueues
    /\ IdleBatch
    /\ IdleRequest
    /\ IdleCycle
    /\ IdleLimiter
    /\ IdleMerge
    /\ IdleRun
    /\ IdleLink
    /\ \E content_type \in ContentTypes, start_id \in 1..MaxScanId,
          batch_size \in 1..MaxChunk, upstream \in [1..MaxScanId -> UpstreamResponses] :
          \E end_id \in start_id..MaxScanId :
             StartSequential(content_type, start_id, end_id, batch_size, upstream)

NextSequential ==
    harvest_sequential /\ UNCHANGED <<queueVars, batchVars, reqVars, cycleVars, limiterVars, mergeVars, runVars, linkVars>>

SpecSequential == InitSequential /\ [][NextSequential]_vars

----------------------------------------------------------------------------
(* Specification of the changes feed readers *)

\* The max_pages of a call: harvest_changes is handed a small one or its
\* default, track_content_changes has none to be handed.
MaxPagesArgs(fn) ==
    IF fn = "harvest_changes"
    THEN (1..MaxPagesArg) \cup {HARVEST_CHANGES_MAX_PAGES}
    ELSE {TRACK_MAX_PAGES}

InitChanges ==
    /\ EmptyQueues
    /\ IdleBatch
    /\ IdleRequest
    /\ IdleCycle
    /\ IdleLimiter
    /\ IdleMerge
    /\ IdleRun
    /\ IdleLink
    /\ \E fn \in ChangesFns, content_type \in ContentTypes, pages \in Feeds :
          \E max_pages \in MaxPagesArgs(fn),
             total_pages \in {Len(pages), NoTotalPages},
             failing \in {NoFailure} \cup (1..Min(Max(Len(pages), 1), MaxFeedPages)) :
             StartChanges(fn, content_type, max_pages, pages, total_pages, failing)

NextChanges ==
    \/ harvest_changes
          /\ UNCHANGED <<queueVars, batchVars, reqVars, cycleVars, limiterVars, mergeVars, runVars, linkVars>>
    \/ track_content_changes
          /\ UNCHANGED <<queueVars, batchVars, reqVars, cycleVars, limiterVars, mergeVars, runVars, linkVars>>

SpecChanges == InitChanges /\ [][NextChanges]_vars

----------------------------------------------------------------------------
(* Specification of harvest_discover *)

InitDiscover ==
    /\ EmptyQueues
    /\ IdleBatch
    /\ IdleRequest
    /\ IdleCycle
    /\ IdleLimiter
    /\ IdleMerge
    /\ IdleRun
    /\ IdleLink
    /\ \E content_type \in ContentTypes, max_pages_per_combo \in DiscoverCaps :
          \E listings \in [DOMAIN Combos(DiscoverRegions, DiscoverSortOrders) -> Listings] :
             StartDiscover(content_type, DiscoverRegions, DiscoverSortOrders,
                           max_pages_per_combo, listings)

NextDiscover ==
    \/ discover_page
          /\ UNCHANGED <<queueVars, batchVars, reqVars, cycleVars, limiterVars, mergeVars, runVars, linkVars>>
    \/ discover_cap_reached
          /\ UNCHANGED <<queueVars, batchVars, reqVars, cycleVars, limiterVars, mergeVars, runVars, linkVars>>
    \/ discover_return
          /\ UNCHANGED <<queueVars, batchVars, reqVars, cycleVars, limiterVars, mergeVars, runVars, linkVars>>

\* The coroutine is run to its end by the event loop: a pass of the loop
\* that can be taken is taken.
SpecDiscover == InitDiscover /\ [][NextDiscover]_vars /\ WF_vars(NextDiscover)

----------------------------------------------------------------------------
(* Specification of the merge of a record with its secondary sources *)

WikidataEntities ==
    {NoEntity} \cup [wikidata_id : WikidataIds, wikipedia_title : BOOLEAN]

\* What Wikidata and Wikipedia hold for a content item.
WikiOf(wikidata_entity, wiki_overview, categories, wikidata_genres, raises) ==
    [wikidata_entity |-> wikidata_entity, wiki_overview |-> wiki_overview,
     categories |-> categories, wikidata_genres |-> wikidata_genres,
     raises |-> raises]

\* A content item whose texts and ids vary, one whose keywords and
\* categories vary, one whose genres vary, or a person.
InitMerge ==
    /\ EmptyQueues
    /\ IdleBatch
    /\ IdleRequest
    /\ IdleCycle
    /\ IdleHarvest
    /\ IdleLimiter
    /\ IdleRun
    /\ IdleLink
    /\ \/ \E overview \in {None} \cup PrimaryTexts, wikidata_id \in {NoneId} \cup WikidataIds,
             wikidata_entity \in WikidataEntities, wiki_overview \in WikiTexts,
             raises \in BOOLEAN :
             StartContentMerge(overview, <<>>, <<>>, wikidata_id,
                WikiOf(wikidata_entity, wiki_overview, <<>>, <<>>, raises))
       \/ \E keyword_names \in TmdbNameLists, categories \in NameLists(CategoryNames) :
             StartContentMerge(<<"x">>, <<>>, keyword_names, NoneId,
                WikiOf([wikidata_id |-> "Q1", wikipedia_title |-> TRUE], <<>>,
                       categories, <<>>, FALSE))
       \/ \E genres \in TmdbNameLists, wikidata_genres \in NameLists(Names) :
             StartContentMerge(<<"x">>, genres, <<>>, NoneId,
                WikiOf([wikidata_id |-> "Q1", wikipedia_title |-> FALSE], <<>>,
                       <<>>, wikidata_genres, FALSE))
       \/ \E biography \in {None} \cup PrimaryTexts,
             wikipedia_bio \in {None} \cup (WikiTexts \ {<<>>}), wikipedia_url \in BOOLEAN :
             StartPersonMerge(biography, wikipedia_bio, wikipedia_url)

MergeContent ==
    /\ merge.op = "content"
    /\ \E merged_genres \in
             Orderings(Range(merge.tmdb_data.genres) \cup Range(merge.wiki.wikidata_genres)) :
          merge_content(merged_genres)

NextMerge ==
    \/ MergeContent /\ UNCHANGED <<queueVars, batchVars, reqVars, cycleVars,
                                   harvestVars, limiterVars, runVars, linkVars>>
    \/ merge_person /\ UNCHANGED <<queueVars, batchVars, reqVars, cycleVars,
                                   harvestVars, limiterVars, runVars, linkVars>>

SpecMerge == InitMerge /\ [][NextMerge]_vars

----------------------------------------------------------------------------
(* linker/cast_crew_linker.py: link_credits_to_content                     *)

MaxLinkBatches == 2     \* store batches one link list of the model can need
LINK_BATCH_SIZE == 500  \* "batch_size = 500" of _upsert_cast_links, _upsert_crew_links

\* The number of credits that carry a tmdb_id in a cast or crew list: none,
\* one, or enough to fill k batches, or k batches and one record more.
LinkCounts ==
    {0, 1} \cup UNION {{k * LINK_BATCH_SIZE, k * LINK_BATCH_SIZE + 1} :
                          k \in 1..(MaxLinkBatches - 1)}

\* "for i in range(0, len(records), batch_size)": the offsets of the batches.
BatchOffsets(n) == {i \in 0..n : i < n /\ i % LINK_BATCH_SIZE = 0}

\* "batch = records[i:i + batch_size]": its length.
BatchLen(n, i) == Min(LINK_BATCH_SIZE, n - i)

\* link_credits_to_content(content_tmdb_id, content_type, cast, crew) has been
\* called with `cast` cast credits and `crew` crew credits that name `people`
\* distinct persons.
StartLink(cast, crew, people) ==
    link = [op |-> "link_credits_to_content", state |-> "running",
            cast |-> cast, crew |-> crew, people |-> people,
            pc |-> "people", i |-> 0,
            attempted |-> {}, failed |-> {},
            stats |-> [people_upserted |-> 0, cast_links |-> 0, crew_links |-> 0]]

\* Where the call goes once the people are upserted or the cast loop has
\* ended: "if not cast_df.empty", "if not crew_df.empty".
AfterPeople(h) == IF h.cast > 0 THEN "cast" ELSE IF h.crew > 0 THEN "crew" ELSE "return"
AfterCast(h) == IF h.crew > 0 THEN "crew" ELSE "return"

\* "if not people_df.empty: upsert_people_bulk(people_df)": the upsert is not
\* inside a try, an exception of the store leaves link_credits_to_content.
link_people(outcome) ==
    /\ link.op = "link_credits_to_content"
    /\ link.state = "running"
    /\ link.pc = "people"
    /\ IF link.people = 0
       THEN /\ outcome = "ok"
            /\ link' = [link EXCEPT !.pc = AfterPeople(link)]
       ELSE IF outcome = "raises"
            THEN link' = [link EXCEPT !.state = "raised",
                                      !.failed = link.failed \cup {<<"people", 0>>}]
            ELSE link' = [link EXCEPT !.pc = AfterPeople(link),
                                      !.stats.people_upserted = link.people]

\* Whether the pass at offset i is the last one of the loop over n records:
\* "except Exception" logs a batch whose upsert raised and the loop goes on.
loop_ends_on_failure(n, i, outcome) == i + LINK_BATCH_SIZE >= n \/ outcome = "raises"

loop_ends(n, i, outcome) == i + LINK_BATCH_SIZE >= n

\* One pass of the loop of _upsert_cast_links: the upsert of the batch at
\* offset i returns, or raises and is logged.
link_cast_batch(outcome) ==
    /\ link.op = "link_credits_to_content"
    /\ link.state = "running"
    /\ link.pc = "cast"
    /\ LET last == loop_ends(link.cast, link.i, outcome)
       IN link' = [link EXCEPT
                     !.attempted = link.attempted \cup {<<"cast", link.i>>},
                     !.failed = IF outcome = "raises"
                                THEN link.failed \cup {<<"cast", link.i>>}
                                ELSE link.failed,
                     !.stats.cast_links =
                         IF outcome = "ok"
                         THEN link.stats.cast_links + BatchLen(link.cast, link.i)
                         ELSE link.stats.cast_links,
                     !.i = IF last THEN 0 ELSE link.i + LINK_BATCH_SIZE,
                     !.pc = IF last THEN AfterCast(link) ELSE "cast"]

\* One pass of the loop of _upsert_crew_links.
link_crew_batch(outcome) ==
    /\ link.op = "link_credits_to_content"
    /\ link.state = "running"
    /\ link.pc = "crew"
    /\ LET last == loop_ends(link.crew, link.i, outcome)
       IN link' = [link EXCEPT
                     !.attempted = link.attempted \cup {<<"crew", link.i>>},
                     !.failed = IF outcome = "raises"
                                THEN link.failed \cup {<<"crew", link.i>>}
                                ELSE link.failed,
                     !.stats.crew_links =
                         IF outcome = "ok"
                         THEN link.stats.crew_links + BatchLen(link.crew, link.i)
                         ELSE link.stats.crew_links,
                     !.i = IF last THEN 0 ELSE link.i + LINK_BATCH_SIZE,
                     !.pc = IF last THEN "return" ELSE "crew"]

\* "return stats"
link_return ==
    /\ link.op = "link_credits_to_content"
    /\ link.state = "running"
    /\ link.pc = "return"
    /\ link' = [link EXCEPT !.state = "returned"]

----------------------------------------------------------------------------
(* Specification of the linker beside an import-queue run *)

LinkOutcomes == {"ok", "raises"}

\* The import queue holds the pending row of an item while the credits of
\* the item are linked: get_import_queue_batch and the linker are called by
\* different programs, in any order.
InitLink ==
    /\ import_queue = UpsertImportRow({}, ImportRecord(1, "movie", DEFAULT_HARVEST_PRIORITY, 0))
    /\ enrichment_queue = {}
    /\ clock = 0
    /\ lastCall = NoCall
    /\ IdleBatch
    /\ IdleRequest
    /\ IdleCycle
    /\ IdleHarvest
    /\ IdleLimiter
    /\ IdleMerge
    /\ IdleRun
    /\ \E cast \in LinkCounts, crew \in LinkCounts :
          \E people \in {Max(cast, crew), cast + crew} : StartLink(cast, crew, people)

LinkStep(A) ==
    A /\ UNCHANGED <<queueVars, batchVars, reqVars, cycleVars, harvestVars,
                     limiterVars, mergeVars, runVars>>

\* The run of enrich_from_import_queue that upserts the main record.
MainRecordRun == QueueStep(AnyRun)

NextLink ==
    \/ \E outcome \in LinkOutcomes : LinkStep(link_people(outcome))
    \/ \E outcome \in LinkOutcomes : LinkStep(link_cast_batch(outcome))
    \/ \E outcome \in LinkOutcomes : LinkStep(link_crew_batch(outcome))
    \/ LinkStep(link_return)
    \/ MainRecordRun

SpecLink == InitLink /\ [][NextLink]_vars

----------------------------------------------------------------------------
(* Specification of the runs of the entry points *)

InitEntryPoints ==
    /\ EmptyQueues
    /\ IdleBatch
    /\ IdleRequest
    /\ IdleCycle
    /\ IdleHarvest
    /\ IdleLimiter
    /\ IdleMerge
    /\ IdleLink
    /\ \E entry \in EntryPoints : StartRun(entry)

RunCall == \E outcome \in AnyOutcome : run_call(outcome)

NextEntryPoints ==
    \/ RunCall /\ UNCHANGED <<queueVars, batchVars, reqVars, cycleVars,
                              harvestVars, limiterVars, mergeVars, linkVars>>
    \/ run_exit /\ UNCHANGED <<queueVars, batchVars, reqVars, cycleVars,
                               harvestVars, limiterVars, mergeVars, linkVars>>

SpecEntryPoints == InitEntryPoints /\ [][NextEntryPoints]_vars

----------------------------------------------------------------------------
(* Properties of the runs of the entry points *)

\* C26: when a store read or write raises during a run of an entry point
\* (harvest, enrichment, change sync, quality report), the run ends with a
\* non-zero status: it never ends with status 0 after a store call raised.
C26_StoreFailureEndsRunNonZero ==
    (run.entry # "none" /\ run.state = "exited" /\ run.raised # {})
    => run.status # 0

----------------------------------------------------------------------------
(* Properties of the linker *)

\* Every batch of the cast and of the crew list of the call.
AllLinkBatches(h) ==
    {<<"cast", i>> : i \in BatchOffsets(h.cast)} \cup {<<"crew", i>> : i \in BatchOffsets(h.crew)}

\* A step of the linker, whatever its outcome.
LinkerStep ==
    \/ \E outcome \in LinkOutcomes : LinkStep(link_people(outcome))
    \/ \E outcome \in LinkOutcomes : LinkStep(link_cast_batch(outcome))
    \/ \E outcome \in LinkOutcomes : LinkStep(link_crew_batch(outcome))
    \/ LinkStep(link_return)

\* An import-queue run that upserts the main record and marks its row.
MainRecordUpserted == MainRecordRun /\ lastCall'.op = "run" /\ lastCall'.completed # {}

\* C28: a failure while linking never prevents the main record from being
\* upserted, and a failed main upsert never prevents linking; inside
\* link_credits_to_content a failed cast-link batch stops neither the
\* remaining cast batches nor the crew links: a call that returns has
\* attempted every batch, and no failed link batch makes the call raise.
C28_LinkingAndMainUpsertDecoupled ==
    link.op = "link_credits_to_content" =>
       /\ link.state = "returned" => link.attempted = AllLinkBatches(link)
       /\ link.state = "raised" => link.failed = {<<"people", 0>>}
       /\ ImportCandidates(import_queue, NoFilter) # {} => ENABLED MainRecordUpserted
       /\ (link.state = "running" /\ lastCall.op = "run" /\ ~lastCall.upsert_ok)
          => ENABLED LinkerStep

\* The first of two cast batches failed, the second and the crew batch were
\* attempted, the call returned, and the run whose upsert raised took place
\* beside it.
C28_Witness ==
    /\ link.op = "link_credits_to_content"
    /\ link.state = "returned"
    /\ <<"cast", 0>> \in link.failed
    /\ <<"cast", LINK_BATCH_SIZE>> \in link.attempted
    /\ \E i \in BatchOffsets(link.crew) : <<"crew", i>> \in link.attempted
    /\ lastCall.op = "run"
    /\ ~lastCall.upsert_ok

----------------------------------------------------------------------------
(* Properties of the work queue *)

IsEnqueueStep == lastCall'.op = "enqueue" /\ clock' = clock + 1 /\ ~lastCall'.raised

\* C1: enqueuing a key that already has a pending row with priority p1, now
\* with priority p2, leaves that row with priority max(p1, p2); a later
\* enqueue with a lower priority never lowers the stored priority.
C1_EnqueueKeepsMaxPriority ==
    [][IsEnqueueStep =>
         /\ lastCall'.queue = "import" =>
               \A r \in import_queue :
                  (<<r.tmdb_id, r.content_type>> \in lastCall'.keys /\ r.status = "pending")
                  => \E r2 \in import_queue' :
                        /\ r2.id = r.id
                        /\ r2.priority = Max(r.priority, lastCall'.priority)
         /\ lastCall'.queue = "enrichment" =>
               \A r \in enrichment_queue :
                  (<<r.queue_type, r.entity_id>> \in lastCall'.keys /\ r.status = "pending")
                  => \E r2 \in enrichment_queue' :
                        /\ r2.id = r.id
                        /\ r2.priority = Max(r.priority, lastCall'.priority)]_vars

\* C2: after any sequence of enqueue calls each queue holds at most one row
\* per natural key: (tmdb_id, content_type) in import_queue, (queue_type,
\* entity_id) in enrichment_queue.
C2_OneRowPerNaturalKey ==
    /\ \A r1, r2 \in import_queue :
          (r1.tmdb_id = r2.tmdb_id /\ r1.content_type = r2.content_type) => r1 = r2
    /\ \A r1, r2 \in enrichment_queue :
          (r1.queue_type = r2.queue_type /\ r1.entity_id = r2.entity_id) => r1 = r2

\* An enqueue of an id list that overlaps the rows already queued has run.
C2_Witness ==
    /\ lastCall.op = "enqueue"
    /\ ~lastCall.raised
    /\ lastCall.existing # {}
    /\ lastCall.existing # lastCall.keys

\* C3: an enqueue leaves the status of a row that is processing or completed
\* untouched.
C3_EnqueueKeepsFinishedStatus ==
    [][IsEnqueueStep =>
         /\ \A r \in import_queue :
               r.status \in {"processing", "completed"}
               => \A r2 \in import_queue' : r2.id = r.id => r2.status = r.status
         /\ \A r \in enrichment_queue :
               r.status \in {"processing", "completed"}
               => \A r2 \in enrichment_queue' : r2.id = r.id => r2.status = r.status]_vars

\* C33: re-enqueuing a key that is pending already leaves the created_at of
\* its row unchanged, so the row keeps its place among the pending rows of
\* equal priority in the dequeue order.
C33_ReEnqueueKeepsCreatedAt ==
    [][IsEnqueueStep =>
         /\ lastCall'.queue = "import" =>
               \A r \in import_queue :
                  (ImportKey(r) \in lastCall'.keys /\ r.status = "pending")
                  => \E r2 \in import_queue' :
                        r2.id = r.id /\ r2.created_at = r.created_at
         /\ lastCall'.queue = "enrichment" =>
               \A r \in enrichment_queue :
                  (EnrichKey(r) \in lastCall'.keys /\ r.status = "pending")
                  => \E r2 \in enrichment_queue' :
                        r2.id = r.id /\ r2.created_at = r.created_at]_vars

\* C34: an item enqueued with add_to_enrichment_queue(queue_type, ids,
\* priority, cycle = c) is stored in cycle bucket c: a following
\* get_enrichment_queue_batch(queue_type, cycle = c) returns it, up to its
\* limit, and a dequeue filtered on any other cycle does not.  Here every
\* enqueue was made with c = BucketCycle.
C34_EnqueuedInItsCycle ==
    (lastCall.op = "dequeue" /\ lastCall.queue = "enrichment") =>
       LET pending == {r \in enrichment_queue :
                          r.queue_type = lastCall.filter /\ r.status = "pending"}
       IN /\ lastCall.cycle = BucketCycle
                => Len(lastCall.rows) = Min(lastCall.limit, Cardinality(pending))
          /\ lastCall.cycle \notin {BucketCycle, NoCycle} => lastCall.rows = <<>>

ComesNoLater(a, b) ==
    \/ a.priority > b.priority
    \/ a.priority = b.priority /\ a.created_at <= b.created_at

\* q holds the first `limit` rows of `matching` in the order priority
\* descending, created_at ascending.
IsFirstInOrder(q, matching, limit) ==
    /\ Len(q) = Min(limit, Cardinality(matching))
    /\ \A i \in DOMAIN q : q[i] \in matching
    /\ \A i, j \in DOMAIN q : i < j => q[i] # q[j] /\ ComesNoLater(q[i], q[j])
    /\ \A r \in matching : (\A i \in DOMAIN q : q[i] # r)
                           => \A i \in DOMAIN q : ComesNoLater(q[i], r)

\* C4: a dequeue returns only rows that are pending and match the filter, at
\* most `limit` of them, and they are the first `limit` such rows in the order
\* priority descending, then created_at ascending.
C4_DequeueReturnsFirstPending ==
    lastCall.op = "dequeue" =>
       IF lastCall.queue = "import"
       THEN IsFirstInOrder(lastCall.rows,
               {r \in import_queue :
                   /\ r.status = "pending"
                   /\ (lastCall.filter # NoFilter => r.content_type = lastCall.filter)},
               lastCall.limit)
       ELSE IsFirstInOrder(lastCall.rows,
               {r \in enrichment_queue :
                   /\ r.status = "pending"
                   /\ r.queue_type = lastCall.filter
                   /\ (lastCall.cycle # NoCycle => r.cycle = lastCall.cycle)},
               lastCall.limit)

\* K1(p=5), K2(p=8), K3(p=5) were enqueued in that order, a fourth row is
\* completed, and dequeue(limit=2) returned [K2, K1].
C4_Witness ==
    /\ lastCall.op = "dequeue"
    /\ lastCall.queue = "import"
    /\ lastCall.limit = 2
    /\ \E k1, k2, k3 \in import_queue :
          /\ k1.priority = 5 /\ k1.created_at = 1 /\ k1.status = "pending"
          /\ k2.priority = 8 /\ k2.created_at = 2 /\ k2.status = "pending"
          /\ k3.priority = 5 /\ k3.created_at = 3 /\ k3.status = "pending"
          /\ lastCall.rows = <<k2, k1>>

\* Two dequeue calls follow each other with the same arguments.
SameDequeueTwice ==
    /\ lastCall.op = "dequeue"
    /\ lastCall'.op = "dequeue"
    /\ lastCall'.queue = lastCall.queue
    /\ lastCall'.filter = lastCall.filter
    /\ lastCall'.cycle = lastCall.cycle
    /\ lastCall'.limit = lastCall.limit

\* The sort columns of the rows of a dequeue result, in order.
SortKeys(rows) == [i \in DOMAIN rows |-> <<rows[i].priority, rows[i].created_at>>]

\* No two rows of the set are equal in priority and created_at.
NoTies(rows) ==
    \A r1, r2 \in rows : (r1.priority = r2.priority /\ r1.created_at = r2.created_at) => r1 = r2

\* The pending rows the latest dequeue chose from.
DequeueCandidates(call) ==
    IF call.queue = "import"
    THEN ImportCandidates(import_queue, call.filter)
    ELSE EnrichCandidates(enrichment_queue, call.filter, call.cycle)

\* C35 as stated: two dequeues with nothing in between receive the same
\* items.
C35_SecondDequeueSameItems ==
    [][SameDequeueTwice => lastCall'.rows = lastCall.rows]_vars

\* C35, amended: a dequeue leaves both tables as they are, no row ever has
\* status processing, and a second dequeue with nothing in between receives
\* rows with the same priorities and created_at in the same order: the same
\* rows, unless rows that tie in priority and created_at lie across the
\* limit or side by side, where the store chooses.
C35_DequeueIsReadOnly ==
    /\ [](\A r \in import_queue \cup enrichment_queue : r.status # "processing")
    /\ [][lastCall'.op = "dequeue" =>
             /\ import_queue' = import_queue
             /\ enrichment_queue' = enrichment_queue]_vars
    /\ [][SameDequeueTwice =>
             /\ SortKeys(lastCall'.rows) = SortKeys(lastCall.rows)
             /\ NoTies(DequeueCandidates(lastCall)) => lastCall'.rows = lastCall.rows]_vars

\* A dequeue returned fewer rows than were pending, and the rows it returned
\* are pending still: the next dequeue is offered them again.
C35_Witness ==
    /\ lastCall.op = "dequeue"
    /\ lastCall.rows # <<>>
    /\ Len(lastCall.rows) < Cardinality(DequeueCandidates(lastCall))
    /\ \A i \in DOMAIN lastCall.rows :
          lastCall.rows[i] \in DequeueCandidates(lastCall)

\* C10: an item whose processing failed in a run has status failed afterwards.
C10_FailedItemMarkedFailed ==
    lastCall.op = "run" =>
       \A i \in DOMAIN lastCall.batch :
          i \notin lastCall.ok
          => \A r \in import_queue : r.id = lastCall.batch[i] => r.status = "failed"

\* The rows of table import_queue that the batch of the latest run named.
BatchRows(rows, call) == {r \in rows : \E i \in DOMAIN call.batch : r.id = call.batch[i]}

\* C27: in an import-queue run an item is marked completed only after the
\* batch's records have been upserted; when the upsert raises, no item of the
\* batch is marked completed and all of them stay pending.
C27_CompletedOnlyAfterUpsert ==
    [][lastCall'.op = "run" =>
         /\ lastCall'.completed # {} => lastCall'.upsert_ok
         /\ \A r \in import_queue' :
               (r.status = "completed" /\ r \notin import_queue)
               => (lastCall'.upsert_ok /\ r.id \in lastCall'.completed)
         /\ ~lastCall'.upsert_ok =>
               /\ import_queue' = import_queue
               /\ \A r \in BatchRows(import_queue', lastCall') : r.status = "pending"]_vars

\* A run whose batch had fetched items and whose upsert raised has ended:
\* the rows of its batch are pending.
C27_Witness ==
    /\ lastCall.op = "run"
    /\ lastCall.ok # {}
    /\ ~lastCall.upsert_ok
    /\ BatchRows(import_queue, lastCall) # {}
    /\ \A r \in BatchRows(import_queue, lastCall) : r.status = "pending"

\* C31: in an import-queue run a row is marked completed only if the fetch
\* and the upsert of that row's own (tmdb_id, content_type) succeeded in the
\* run, and every row whose item succeeded is marked completed, also in a
\* batch that holds a movie row and a tv row with the same tmdb_id.
C31_CompletedRowsAreTheSucceededRows ==
    lastCall.op = "run" =>
       lastCall.completed =
          IF lastCall.upsert_ok THEN {lastCall.batch[i] : i \in lastCall.ok} ELSE {}

\* C32: under repeated import-queue runs with a fixed batch size every
\* pending item is eventually dequeued, also when items of higher or equal
\* priority that were enqueued earlier fail their fetch on every run.
C32_EveryPendingItemIsDequeued ==
    \A t \in Ids, ct \in ContentTypes :
       (\E r \in import_queue : r.tmdb_id = t /\ r.content_type = ct /\ r.status = "pending")
       ~> (lastCall.op = "run" /\ <<t, ct>> \in Range(lastCall.batch))

----------------------------------------------------------------------------
(* Properties of the batch calls *)

\* The positions of the batch whose fetch gave the item's data.
Succeeded == {i \in DOMAIN items : fetched[i] = "ok"}

\* The place of position i among the positions of S, in input order.
Rank(S, i) == Cardinality({j \in S : j <= i})

\* C5: in get_content_details_batch and get_people_details_batch a single
\* item's fatal error is never propagated as a whole-batch exception: the call
\* returns, the failed item's slot is missing and every sibling's result is
\* in its own slot.
C5_DetailsBatchNeverRaises ==
    gathered.fn \in DetailsBatchFns =>
       /\ gathered.state # "raised"
       /\ gathered.state = "returned" =>
             /\ Len(gathered.value) = Len(items)
             /\ \A i \in DOMAIN items :
                   gathered.value[i] = IF i \in Succeeded THEN Data(items[i]) ELSE None

\* C6: in ContentEnricher.enrich_batch and PeopleEnricher.enrich_batch the
\* failure of the task of item k never ends the batch call with an exception
\* and never ends a task with one; the call returns only after every task
\* has run to completion, and it returns exactly the results of the items
\* that did not fail, in input order, so item k contributes nothing.
C6_EnrichBatchIsolatesFailure ==
    gathered.fn \in EnrichBatchFns =>
       /\ gathered.state # "raised"
       /\ \A i \in DOMAIN items : taskPc[i] # "raised"
       /\ gathered.state = "returned" =>
             /\ \A i \in DOMAIN items : taskPc[i] = "done"
             /\ Len(gathered.value) = Cardinality(Succeeded)
             /\ \A i \in Succeeded :
                   gathered.value[Rank(Succeeded, i)] = Data(items[i])

\* An enrich_batch call of at least two items has returned; the fetch of
\* exactly one item raised and the results of all the others came back.
C6_Witness ==
    /\ gathered.fn \in EnrichBatchFns
    /\ gathered.state = "returned"
    /\ Len(items) >= 2
    /\ Cardinality({k \in DOMAIN items : fetched[k] = "error"}) = 1
    /\ Cardinality(Succeeded) = Len(items) - 1
    /\ Len(gathered.value) = Len(items) - 1

----------------------------------------------------------------------------
(* Properties of the requesters *)

TransientResponses == {"timeout", "500", "429"}
PermanentResponses == {"401", "404", "200_malformed"}

\* C7: a transient failure (timeout, 5xx, 429) of an attempt is retried while
\* attempts are left, and a permanent failure (another 4xx such as 401 or
\* 404, a malformed response) ends the call with that failure at once: no
\* attempt follows it.
C7_PermanentFailsWithoutRetry ==
    \A i \in DOMAIN request.responses :
       /\ request.responses[i] \in PermanentResponses
          => i = Len(request.responses) /\ request.state = "raised"
       /\ (/\ request.responses[i] \in TransientResponses
           /\ i = Len(request.responses)
           /\ i < StopAfterAttempt(request.client)) => request.state = "calling"

\* The requesters that look one thing up: a TMDB detail fetch, a Wikipedia
\* page, a Wikidata entity.
LookupRequesters == {"TMDBClient._request"} \cup RestRequesters

\* C18: a 404 response to a lookup is handed to the caller as a valid empty
\* result: the call returns the empty result, the 404 is not raised and no
\* attempt follows it.
C18_NotFoundIsEmptyResult ==
    request.client \in LookupRequesters =>
       \A i \in DOMAIN request.responses :
          request.responses[i] = "404"
          => /\ i = Len(request.responses)
             /\ request.state = "returned"
             /\ request.value = "empty"

\* Every attempt of the call so far met a transient failure.
AllTransient ==
    /\ request.responses # <<>>
    /\ \A i \in DOMAIN request.responses : request.responses[i] \in TransientResponses

\* The N of the claim: 5 attempts for TMDB, 3 for Wikipedia and Wikidata.
ClaimedAttempts ==
    IF request.client = "TMDBClient._request" THEN 5 ELSE 3

----------------------------------------------------------------------------
(* Properties of the batch runners *)

IsRunStep == Len(history') = Len(history) + 1

\* C8: every run of a batch runner moves the cycle cursor of its queue class
\* to (cursor + 1) mod C, once: a run that processed no item too, and a run
\* that upserted items by one step only.
C8_EveryRunAdvancesCursorOnce ==
    [][IsRunStep =>
         LET qt == history'[Len(history')].queue_type
         IN cursor'[qt] = (cursor[qt] + 1) % NumCycles]_vars

\* C9: over C consecutive runs of a runner with no pinned cycle the active
\* cycle takes each value 0..C-1 exactly once: two unpinned runs of a queue
\* class fewer than C runs apart, with no pinned run of that class between
\* them, never work on the same cycle.
C9_ConsecutiveRunsVisitDistinctCycles ==
    \A i, j \in DOMAIN history :
       (/\ i < j
        /\ history[i].queue_type = history[j].queue_type
        /\ \A k \in i..j : history[k].queue_type = history[i].queue_type
                             => ~history[k].pinned
        /\ Cardinality({k \in i..j : history[k].queue_type = history[i].queue_type})
              <= NumCycles)
       => history[i].active_cycle # history[j].active_cycle

----------------------------------------------------------------------------
(* Properties of the harvester *)

\* The ids stored for the content type of the harvest call.
Corpus ==
    {r.tmdb_id : r \in {c \in harvest.content : c.content_type = harvest.content_type}}

\* C11: with A, B, C the sets the discover, sequential and changes strategies
\* return and S the ids already stored for the content type, the set of ids
\* harvest_all_strategies passes to the import queue is (A \cup B \cup C) \ S;
\* a strategy that is not run contributes the empty set, and with nothing new
\* the import queue is not called.
C11_QueuedIsUnionMinusCorpus ==
    (harvest.op = "harvest_all_strategies" /\ harvest.state = "returned") =>
       LET A == harvest.results["discover"]
           B == harvest.results["sequential"]
           C == harvest.results["changes"]
           expected == (A \cup B \cup C) \ Corpus
       IN /\ harvest.passed = expected
          /\ harvest.called_queue <=> expected # {}
          /\ harvest.called_queue =>
                /\ lastCall.op = "enqueue"
                /\ lastCall.keys = {<<id, harvest.content_type>> : id \in expected}
                /\ \A id \in expected :
                      \E r \in import_queue :
                         r.tmdb_id = id /\ r.content_type = harvest.content_type

\* A harvest in which two strategies returned overlapping sets, one harvested
\* id was stored already for the content type and another one was queued.
C11_Witness ==
    /\ harvest.op = "harvest_all_strategies"
    /\ harvest.state = "returned"
    /\ harvest.results["discover"] \cap harvest.results["changes"] # {}
    /\ harvest.all_ids \cap Corpus # {}
    /\ harvest.called_queue
    /\ harvest.passed # {}
    /\ harvest.passed # harvest.all_ids

\* C29: after a harvest pass duplicates_skipped is the number of harvested
\* ids that are in the corpus already, and new_queued + duplicates_skipped is
\* the number of distinct harvested ids; the ids enqueued are the others.
C29_DuplicatesAccounted ==
    (harvest.op = "harvest_all_strategies" /\ harvest.state = "returned") =>
       /\ harvest.stats.duplicates_skipped = Cardinality(harvest.all_ids \cap Corpus)
       /\ harvest.stats.new_queued + harvest.stats.duplicates_skipped
             = Cardinality(harvest.all_ids)
       /\ harvest.stats.total_harvested = Cardinality(harvest.all_ids)
       /\ harvest.passed = harvest.all_ids \ Corpus

\* The harvest set held one id of the corpus and one new id: the new one was
\* enqueued and one duplicate was reported.
C29_Witness ==
    /\ harvest.op = "harvest_all_strategies"
    /\ harvest.state = "returned"
    /\ Cardinality(harvest.all_ids) >= 2
    /\ Cardinality(harvest.all_ids \cap Corpus) = 1
    /\ harvest.stats.duplicates_skipped = 1
    /\ harvest.passed = harvest.all_ids \ Corpus
    /\ harvest.passed # {}

\* The strategies of the call in the order in which they are tested.
RECURSIVE SelectedFrom(_, _)
SelectedFrom(strategies, k) ==
    IF k > Len(StrategyOrder) THEN <<>>
    ELSE (IF StrategyOrder[k] \in strategies THEN <<StrategyOrder[k]>> ELSE <<>>)
         \o SelectedFrom(strategies, k + 1)

\* How often `call` is among the calls of the harvester.
CallCount(h, call) == Cardinality({k \in DOMAIN h.calls : h.calls[k] = call})

\* C30 as stated: every harvest pass that ends has read the corpus exactly
\* once.
C30_CorpusReadExactlyOnce ==
    (harvest.op = "harvest_all_strategies" /\ harvest.state \in {"returned", "raised"})
    => CallCount(harvest, "get_all_content_tmdb_ids") = 1

\* C30, amended: within one harvest pass the selected strategies run one
\* after another; then, when they harvested any id, the corpus is read once
\* for the whole harvest set (a pass that harvested nothing does not read
\* it); then, when there are new ids, they are handed to the import queue in
\* one enqueue call; nothing is enqueued before all selected strategies have
\* finished.
C30_StrategiesThenReadThenEnqueue ==
    harvest.op = "harvest_all_strategies" =>
       LET selected == SelectedFrom(harvest.strategies, 1)
           ended == harvest.state \in {"returned", "raised"}
       IN /\ harvest.state = "called" =>
                /\ harvest.calls = SelectedFrom(harvest.strategies \cap
                                      {StrategyOrder[k] : k \in 1..(harvest.pc - 1)}, 1)
                /\ import_queue = {}
                /\ lastCall = NoCall
          /\ ended =>
                /\ harvest.calls \in
                      {selected,
                       selected \o <<"get_all_content_tmdb_ids">>,
                       selected \o <<"get_all_content_tmdb_ids", "add_to_import_queue">>}
                /\ CallCount(harvest, "get_all_content_tmdb_ids")
                      = IF harvest.all_ids # {} THEN 1 ELSE 0
          /\ harvest.state = "returned" =>
                /\ CallCount(harvest, "add_to_import_queue")
                      = IF harvest.all_ids \ Corpus # {} THEN 1 ELSE 0
                /\ harvest.called_queue =>
                      /\ lastCall.op = "enqueue"
                      /\ clock = 1
                      /\ lastCall.keys = {<<id, harvest.content_type>> : id \in harvest.passed}

\* Two strategies ran, in order, the corpus held one of several harvested
\* ids, and the others went to the import queue in one call.
C30_Witness ==
    /\ harvest.op = "harvest_all_strategies"
    /\ harvest.state = "returned"
    /\ harvest.calls = <<"discover", "changes", "get_all_content_tmdb_ids",
                         "add_to_import_queue">>
    /\ Cardinality(harvest.all_ids) >= 2
    /\ harvest.all_ids \cap Corpus # {}
    /\ clock = 1

\* C17: harvest_sequential returns every id of [start_id, end_id] that
\* resolves upstream in its valid set, also when other ids of the same chunk
\* do not exist upstream (404) or fail.
C17_ScanKeepsResolvedIds ==
    (harvest.op = "harvest_sequential" /\ harvest.state = "returned") =>
       \A id \in harvest.start_id..harvest.end_id :
          harvest.upstream[id] = "200" => id \in harvest.valid_ids

\* A changes call has returned, none of its requests failed and the feed
\* reported its total_pages.
ChangesRead ==
    /\ harvest.op \in ChangesFns
    /\ harvest.state = "returned"
    /\ harvest.failing = NoFailure
    /\ harvest.total_pages # NoTotalPages

\* The ids a changes call returned: harvest_changes returns a set,
\* track_content_changes a list.
ReturnedIds ==
    IF harvest.op = "harvest_changes"
    THEN harvest.changed_ids
    ELSE Range(harvest.changed_ids)

\* The page limit of the call.
PageLimit ==
    IF harvest.op = "harvest_changes" THEN harvest.max_pages ELSE TRACK_MAX_PAGES

\* C20 as stated: harvest_changes and track_content_changes paginate the
\* changes feed until it is exhausted: when no request fails the result
\* holds the ids of every page 1..total_pages the feed reports.
C20_ChangesReadEveryPage ==
    ChangesRead =>
       \A q \in 1..harvest.total_pages : Range(harvest.pages[q]) \subseteq ReturnedIds

\* C20, amended: both functions read the pages only up to their page limit
\* (max_pages, 50 by default, in harvest_changes; 10 in
\* track_content_changes): when no request fails the result holds exactly
\* the ids of the pages 1..min(total_pages, max_pages).
C20_ChangesReadUpToPageLimit ==
    ChangesRead =>
       ReturnedIds =
          UNION {Range(harvest.pages[q]) : q \in 1..Min(harvest.total_pages, PageLimit)}

\* A call read a feed of more pages than its page limit, to the limit: an id
\* of a later page is not in the result.
C20_Witness ==
    /\ ChangesRead
    /\ harvest.total_pages > PageLimit
    /\ PageLimit >= 2
    /\ ReturnedIds # {}
    /\ \E q \in (PageLimit + 1)..harvest.total_pages :
          ~(Range(harvest.pages[q]) \subseteq ReturnedIds)

\* The total_pages a combination's listing comes to in harvest_discover.
DiscoverTotalPages(c) ==
    TotalPagesOr("harvest_discover", harvest.listings[c].total_pages)

\* The requests of combination c are for the pages 1, 2, ... in order.
ConsecutivePages(c) ==
    \A k \in DOMAIN harvest.requested[c] : harvest.requested[c][k] = k

\* The request of combination c that ended its loop, when one did: an empty
\* page, the reported last page, or a request that raised.
StoppedAt(c, k) ==
    \/ k = harvest.listings[c].failing
    \/ PageResults(harvest.listings[c].pages, k) = <<>>
    \/ k >= DiscoverTotalPages(c)

\* C21 as stated: harvest_discover issues at most min(total_pages, cap) page
\* requests per combination.
C21_AtMostMinRequests ==
    harvest.op = "harvest_discover" =>
       \A c \in DOMAIN harvest.combos :
          Len(harvest.requested[c])
             <= Min(DiscoverTotalPages(c), harvest.max_pages_per_combo)

\* The state part of C21, amended.
DiscoverPaginates ==
    harvest.op = "harvest_discover" =>
       \A c \in DOMAIN harvest.combos :
          /\ ConsecutivePages(c)
          /\ Len(harvest.requested[c])
                <= Min(Max(DiscoverTotalPages(c), 1), harvest.max_pages_per_combo)
          /\ \A k \in DOMAIN harvest.requested[c] :
                StoppedAt(c, k) => k = Len(harvest.requested[c])
          /\ (harvest.state = "returned" \/ c < harvest.combo) =>
                /\ \/ Len(harvest.requested[c]) = harvest.max_pages_per_combo
                   \/ /\ harvest.requested[c] # <<>>
                      /\ StoppedAt(c, Len(harvest.requested[c]))
                /\ harvest.listings[c].failing = NoFailure =>
                      \A k \in DOMAIN harvest.requested[c] :
                         Range(PageResults(harvest.listings[c].pages, k))
                            \subseteq harvest.discovered_ids

\* C21, amended: for every (region, sort order) combination harvest_discover
\* requests the pages 1, 2, ... consecutively and stops at the first of an
\* empty result page, the reported last page, the page cap or a request that
\* raises; page 1 is requested before total_pages is known, so it issues at
\* most min(max(total_pages, 1), cap) requests per combination; it always
\* returns, and when no request of a combination fails the result holds
\* every id of the pages requested for it.
C21_DiscoverPaginatesAndReturns ==
    /\ []DiscoverPaginates
    /\ <>(harvest.op = "harvest_discover" => harvest.state = "returned")

\* A discover call returned in which one combination was read to the page
\* cap, short of its total_pages, and the other to its reported last page,
\* with no request failing.
C21_Witness ==
    /\ harvest.op = "harvest_discover"
    /\ harvest.state = "returned"
    /\ \A c \in DOMAIN harvest.combos : harvest.listings[c].failing = NoFailure
    /\ Len(harvest.requested[1]) = harvest.max_pages_per_combo
    /\ DiscoverTotalPages(1) > harvest.max_pages_per_combo
    /\ DiscoverTotalPages(2) = 2
    /\ harvest.requested[2] = <<1, 2>>
    /\ harvest.discovered_ids = {1, 2}

\* The combinations whose pages have been enumerated.
CombosDone ==
    {c \in DOMAIN harvest.combos : harvest.state = "returned" \/ c < harvest.combo}

\* C39: in harvest_discover a request that raises on a page of one
\* combination ends that combination only: the failing page is the last one
\* requested for it, the ids of the pages requested before it are in the
\* result, and every later combination is enumerated from its page 1.
C39_RequestErrorEndsOneCombination ==
    harvest.op = "harvest_discover" =>
       /\ \A c \in DOMAIN harvest.combos :
             /\ \A k \in DOMAIN harvest.requested[c] :
                   /\ harvest.requested[c][k] = harvest.listings[c].failing =>
                         k = Len(harvest.requested[c])
                   /\ harvest.requested[c][k] # harvest.listings[c].failing =>
                         Range(PageResults(harvest.listings[c].pages,
                                           harvest.requested[c][k]))
                            \subseteq harvest.discovered_ids
       /\ \A c \in CombosDone : harvest.requested[c] # <<>> /\ harvest.requested[c][1] = 1
       /\ harvest.state = "returned" => CombosDone = DOMAIN harvest.combos

\* A discover call returned in which the request of page 2 of the first
\* combination raised: the id of its page 1 is in the result, and so is the
\* id that only the second combination lists.
C39_Witness ==
    /\ harvest.op = "harvest_discover"
    /\ harvest.state = "returned"
    /\ harvest.listings[1].failing = 2
    /\ harvest.requested[1] = <<1, 2>>
    /\ harvest.listings[1].pages = <<(<<1>>), (<<1>>)>>
    /\ harvest.listings[2].failing = NoFailure
    /\ harvest.listings[2].pages # <<>>
    /\ harvest.listings[2].pages[1] = <<2>>
    /\ harvest.requested[2] # <<>>
    /\ harvest.discovered_ids = {1, 2}

----------------------------------------------------------------------------
(* Properties of the merge *)

\* len() of a text, 0 for None
TextLen(text) == IF text = None THEN 0 ELSE Len(text)

\* The name of the text field and of the audit field of the merged record.
TextField == IF merge.op = "content" THEN "overview" ELSE "biography"
AuditField == IF merge.op = "content" THEN "overview_source" ELSE "bio_source"

\* The primary text of the merge and the secondary text it was given.
PrimaryText == merge.tmdb_data[TextField]
SecondaryText ==
    IF merge.op = "content" THEN merge.wiki.wiki_overview ELSE merge.wiki.wikipedia_bio

\* A merge is done in which Wikipedia gave a text for the item: the content
\* item has a Wikidata entity with a Wikipedia title and no lookup raised,
\* the person has a page with an extract.
MergedWithSecondary ==
    /\ merge.op \in {"content", "people"}
    /\ merge.state = "merged"
    /\ IF merge.op = "content"
       THEN /\ merge.wiki.wikidata_entity # NoEntity
            /\ merge.wiki.wikidata_entity.wikipedia_title
            /\ ~merge.wiki.raises
       ELSE merge.wiki.wikipedia_bio # None

\* The secondary text replaced the primary one.
Overwritten == TextField \in DOMAIN merge.wiki_data

\* C22 as stated: with L1 the length of the primary text and L2 the length
\* of the secondary text, the secondary overwrites the primary if and only if
\* L2 > 2 * L1 or L1 = 0, for all L1, L2 >= 0.
C22_OverwriteIffTwiceAsLong ==
    MergedWithSecondary =>
       (Overwritten <=>
           \/ TextLen(SecondaryText) > 2 * TextLen(PrimaryText)
           \/ TextLen(PrimaryText) = 0)

\* C22, amended: the secondary text overwrites the primary if and only if it
\* is not empty and either L2 > 2 * L1 or the primary is missing: None or
\* empty for an overview, None, empty or blank for a biography; the
\* overwritten field then holds the secondary text.
C22_NonEmptySecondaryOverwrites ==
    MergedWithSecondary =>
       LET missing == \/ TextLen(PrimaryText) = 0
                      \/ merge.op = "people" /\ Strip(PrimaryText) = <<>>
       IN /\ Overwritten <=>
                /\ TextLen(SecondaryText) > 0
                /\ \/ TextLen(SecondaryText) > 2 * TextLen(PrimaryText)
                   \/ missing
          /\ merge.merged[TextField] = IF Overwritten THEN SecondaryText ELSE PrimaryText

\* An overview of two characters was overwritten by one of five, and not by
\* one of four.
C22_Witness ==
    /\ MergedWithSecondary
    /\ merge.op = "content"
    /\ TextLen(PrimaryText) = 2
    /\ TextLen(SecondaryText) = 5
    /\ merge.merged.overview = SecondaryText

\* C23 as stated: a field for which the TMDB payload has a value is not
\* replaced by a secondary value in the merged record, unless the
\* richness-override or the set-union policy applies: a wikidata_id of the
\* TMDB external ids survives the merge with the Wikidata enrichment.
C23_PrimaryWikidataIdSurvives ==
    (merge.op = "content" /\ merge.state = "merged"
        /\ merge.tmdb_data.wikidata_id # NoneId) =>
       merge.merged.wikidata_id = merge.tmdb_data.wikidata_id

\* s is the start of t
IsPrefix(s, t) == Len(s) <= Len(t) /\ SubSeq(t, 1, Len(s)) = s

\* No two values of the list of names are equal ignoring case.
DistinctIgnoringCase(names) ==
    \A i, j \in DOMAIN names : Lower(names[i]) = Lower(names[j]) => i = j

\* C24 as stated: when Wikipedia categories are merged into the keywords and
\* Wikidata genres into the genres, the existing values are kept unchanged
\* and in order, the new values come after them, no two values of the merged
\* list are equal ignoring case, and no more than the maximum count are added.
C24_UnionKeepsOrderAndCaseDistinct ==
    (merge.op = "content" /\ merge.state = "merged") =>
       /\ "keywords" \in DOMAIN merge.wiki_data =>
             LET merged == merge.merged.keywords
             IN /\ IsPrefix(merge.tmdb_data.keywords, merged)
                /\ DistinctIgnoringCase([i \in DOMAIN merged |-> merged[i].name])
                /\ Len(merged) <= Len(merge.tmdb_data.keywords) + WIKI_KEYWORDS_LIMIT
       /\ "genres" \in DOMAIN merge.wiki_data =>
             LET merged == merge.merged.genres
             IN /\ IsPrefix(merge.tmdb_data.genres, merged)
                /\ DistinctIgnoringCase(merged)
                /\ Len(merged) <= Len(merge.tmdb_data.genres) + WIKI_KEYWORDS_LIMIT

\* C25: in every merged record the audit field (overview_source for content,
\* bio_source for people) names the source whose value is in the text field:
\* it is "wikipedia" exactly when the richness-override replaced the primary
\* text, and the field holds the Wikipedia text then, and "tmdb" with the
\* TMDB text in the field otherwise.
C25_AuditFieldNamesSource ==
    (merge.op \in {"content", "people"} /\ merge.state = "merged") =>
       IF Overwritten
       THEN /\ merge.merged[AuditField] = "wikipedia"
            /\ merge.merged[TextField] = SecondaryText
       ELSE /\ merge.merged[AuditField] = "tmdb"
            /\ merge.merged[TextField] = PrimaryText

\* An overview was replaced by the Wikipedia text and is attributed to
\* Wikipedia, next to a Wikidata id.
C25_Witness ==
    /\ merge.op = "content"
    /\ merge.state = "merged"
    /\ Overwritten
    /\ PrimaryText # None
    /\ Len(PrimaryText) = 1
    /\ merge.merged.overview_source = "wikipedia"
    /\ merge.merged.overview = SecondaryText

----------------------------------------------------------------------------
(* Properties of the limiter *)

\* C12: starting from current_delay_ms = base, after N consecutive 429s with
\* no success in between, current_delay_ms = min(base * 2^N, 5000 ms).
C12_BackoffIsCappedDoubling ==
    backoff.throttles # NotCounted =>
       current_delay_ms =
          Min(TMDB_RATE_LIMIT_DELAY_MS * Pow(2, backoff.throttles), MAX_DELAY_MS)
             * DelayScale

\* Seven 429s in a row from the base delay: 50 * 2^7 ms is above the cap, the
\* delay is the cap.
C12_Witness ==
    /\ backoff.throttles = 7
    /\ backoff.op = "increase_delay"
    /\ 2 * backoff.before > max_delay_ms
    /\ current_delay_ms = max_delay_ms

InAcquire == {t \in DOMAIN acquirers : acquirers[t].pc = "sleeping"}

\* C14: with any number of tasks in acquire() on one limiter at most one of
\* them is between its read of last_request_time and its write of it, and an
\* acquire() returns no sooner after the previous return of an acquire() on
\* that limiter than the delay it read.
C14_AcquireExclusiveAndSpaced ==
    /\ Cardinality(InAcquire) <= 1
    /\ \A t \in InAcquire : limiter.lock = t
    /\ \A t \in DOMAIN acquirers :
          (acquirers[t].pc = "acquired" /\ acquirers[t].since_previous # NoneTime)
          => acquirers[t].since_previous >= acquirers[t].read_delay

\* A task slept in acquire() while another one waited for the lock and the
\* delay was changed, and it returned exactly the delay it had read after the
\* previous return.
C14_Witness ==
    \E t, u \in DOMAIN acquirers :
       /\ acquirers[t].pc = "acquired"
       /\ acquirers[t].wake # NoneTime
       /\ acquirers[t].since_previous = acquirers[t].read_delay
       /\ acquirers[t].read_delay # current_delay_ms
       /\ acquirers[u].pc = "waiting"

\* C36: for the TMDBRateLimiter (base delay not above 5000 ms) every state
\* reachable by any interleaving of acquire, increase_delay and reset_delay
\* calls of concurrent tasks has base <= current_delay_ms <= 5000 ms.
C36_DelayStaysWithinBounds ==
    limiter.client = "TMDBRateLimiter" =>
       /\ base_delay_ms <= max_delay_ms
       /\ base_delay_ms <= current_delay_ms
       /\ current_delay_ms <= max_delay_ms

\* While a task slept in acquire() with the lock held, 429s of other tasks
\* took the delay from the value the sleeper had read to the cap.
C36_Witness ==
    /\ limiter.client = "TMDBRateLimiter"
    /\ current_delay_ms = max_delay_ms
    /\ backoff.op = "increase_delay"
    /\ \E t \in DOMAIN acquirers :
          /\ acquirers[t].pc = "sleeping"
          /\ acquirers[t].read_delay < current_delay_ms

\* A step in which a 429 has called increase_delay()
ThrottleSignal == backoff'.op = "increase_delay"

\* C37: once the 429s have stopped, the successes that follow bring
\* current_delay_ms back to exactly base_delay_ms after finitely many of
\* them, and it stays there while the requests keep succeeding.
C37_RecoversToBase ==
    <>[][~ThrottleSignal]_vars => <>[](current_delay_ms = base_delay_ms)

\* A success has taken the delay from above the base to exactly the base,
\* after a 429 had raised it.
C37_Witness ==
    /\ ThrottlesStopped
    /\ backoff.before > base_delay_ms
    /\ current_delay_ms = base_delay_ms

\* The acquire() calls of the logical call that have returned and are not
\* yet followed by their attempt.
AcquiredNotSent == Cardinality({t \in DOMAIN acquirers : acquirers[t].pc = "acquired"})

\* C38: every attempt of _request, the first one and each retry, comes after
\* an acquire() of its own, and the acquire() of the retry that follows a 429
\* reads the delay that the 429 has raised (doubled, up to the cap).
C38_EveryAttemptPassesLimiter ==
    "acquires" \in DOMAIN request =>
        /\ Len(request.acquires) = request.attempt + AcquiredNotSent
        /\ AcquiredNotSent <= 1
        /\ \A k \in DOMAIN request.responses :
              (k + 1 \in DOMAIN request.acquires /\ request.responses[k] = "429") =>
                 /\ request.acquires[k + 1] = increase_delay(request.acquires[k])
                 /\ request.acquires[k] * 2 <= max_delay_ms =>
                       request.acquires[k + 1] = request.acquires[k] * 2

\* A retry after a 429 has been sent, after an acquire() that read twice the
\* delay of the attempt before it.
C38_Witness ==
    /\ "acquires" \in DOMAIN request
    /\ request.attempt >= 2
    /\ request.responses[1] = "429"
    /\ request.acquires[2] = request.acquires[1] * 2

----------------------------------------------------------------------------
(* Properties of the concurrency gate *)

\* The tasks that hold a permit of the semaphore.
Holding == {i \in DOMAIN taskPc : taskPc[i] = "running"}

\* C15: during a batch of M items run with max_concurrent = K at most K tasks
\* hold a permit of the semaphore in every reachable state, and no task gets
\* to its fetch (rate limiter and request) before it has taken its permit.
C15_AtMostKPermitsHeld ==
    gathered.fn # "none" =>
       /\ Cardinality(Holding) <= gathered.max_concurrent
       /\ permits = gathered.max_concurrent - Cardinality(Holding)
       /\ \A i \in DOMAIN taskPc : taskPc[i] = "waiting" => fetched[i] = "none"

\* More items than permits: every permit is held, a task has ended and
\* another one still waits for a permit.
C15_Witness ==
    /\ gathered.fn # "none"
    /\ Len(items) > gathered.max_concurrent
    /\ Cardinality(Holding) = gathered.max_concurrent
    /\ permits = 0
    /\ \E i, j \in DOMAIN taskPc : taskPc[i] = "waiting" /\ taskPc[j] = "done"

\* The position in the input list of the p-th item of which enrich_batch
\* kept a result.
Origin(p) == CHOOSE i \in Succeeded : Rank(Succeeded, i) = p

\* C16: the output order of a batch matches the input order whatever the
\* order in which the tasks end: the details batch returns the result of
\* item i at position i, and the results enrich_batch returns are in the
\* relative order of their items in the input list.
C16_OutputInInputOrder ==
    gathered.state = "returned" =>
       IF gathered.fn \in DetailsBatchFns
       THEN /\ DOMAIN gathered.value = DOMAIN items
            /\ \A i \in DOMAIN items :
                  gathered.value[i] = get_details(items[i], fetched[i])
       ELSE /\ DOMAIN gathered.value = 1..Cardinality(Succeeded)
            /\ \A p \in DOMAIN gathered.value :
                  gathered.value[p] = Data(items[Origin(p)])
            /\ \A p, q \in DOMAIN gathered.value : p < q => Origin(p) < Origin(q)

\* An enrich_batch call returned the results of two different items of which
\* the later one in the input list ended first.
C16_Witness ==
    /\ gathered.fn \in EnrichBatchFns
    /\ gathered.state = "returned"
    /\ \E i, j \in Succeeded :
          /\ i < j
          /\ items[i] # items[j]
          /\ \E a, b \in DOMAIN gathered.finished :
                a < b /\ gathered.finished[a] = j /\ gathered.finished[b] = i

====
